---- MODULE Spec2Model ----
(***************************************************************************)
(* A model of the Notion tasks Stream Deck plugin: the pure task helpers   *)
(* (src/src/notion/task-helpers.ts) and the TaskCoordinator / NotionClient *)
(* pair with the summary listeners (src/src/actions/notion-today.ts).      *)
(*                                                                         *)
(* A JavaScript string is a sequence of one-character strings, so that     *)
(* trimming, case folding and comparison are computed.  An optional value  *)
(* (T | undefined) is a sequence of length at most one: <<>> is undefined  *)
(* and <<v>> is the value v.                                               *)
(***************************************************************************)
EXTENDS Integers, Sequences, FiniteSets, TLC

VARIABLES
  contexts,          \* TaskCoordinator.contexts, in insertion order
  pendingRefreshes,  \* TaskCoordinator.pendingRefreshes: cache key -> promise
  tasks,             \* TaskCoordinator.tasks
  summary,           \* TaskCoordinator.summary (optional)
  lastError,         \* TaskCoordinator.lastError (optional)
  cacheKey,          \* NotionClient.cacheKey (optional)
  cachedTasks,       \* NotionClient.cachedTasks
  lastFetch,         \* NotionClient.lastFetch (optional)
  inflight,          \* NotionClient.inflight (optional promise)
  summaryListeners,  \* the module-level Set of listeners, in insertion order
  now,               \* Date.now()
  pages,             \* the data source: the status stored for each page
  procs,             \* the handler invocations that are suspended at an await
  ev,                \* what the last step did that leaves no trace in the state
  events,            \* the number of events of the host and of the user so far
  helperCall,        \* a call of a task helper: its input and what it returned
  habit,             \* HabitCoordinator: its maps, its data source, its awaits
  dial               \* the ContextState of a dial, its timers and its requests

vars == <<contexts, pendingRefreshes, tasks, summary, lastError, cacheKey,
          cachedTasks, lastFetch, inflight, summaryListeners, now, pages,
          procs, ev, events, helperCall, habit, dial>>

None == <<>>
Some(v) == <<v>>
IsSome(o) == Len(o) > 0
Get(o) == o[1]

\* o ?? d
OrDefault(o, d) == IF o # None THEN Get(o) ELSE d

\* the first comparison that is not zero decides
OrElse(first, second) == IF first # 0 THEN first ELSE second

\* the least number of S, or d when S is empty
firstIn(S, d) == IF S = {} THEN d ELSE CHOOSE i \in S : \A j \in S : i <= j

\* a string of length zero is falsy
nonEmpty(s) == IF Len(s) = 0 THEN None ELSE Some(s)

-----------------------------------------------------------------------------
(* Strings                                                                 *)

UpperChars == <<"A","B","C","D","E","F","G","H","I","J","K","L","M",
                "N","O","P","Q","R","S","T","U","V","W","X","Y","Z">>
LowerChars == <<"a","b","c","d","e","f","g","h","i","j","k","l","m",
                "n","o","p","q","r","s","t","u","v","w","x","y","z">>
DigitChars == <<"0","1","2","3","4","5","6","7","8","9">>
SpaceChars == {" ", "\t", "\n"}

IndexIn(c, seq) ==
  IF \E i \in 1..Len(seq) : seq[i] = c
    THEN CHOOSE i \in 1..Len(seq) : seq[i] = c
    ELSE 0

\* String.prototype.toLowerCase on one character
LowerChar(c) ==
  IF IndexIn(c, UpperChars) > 0 THEN LowerChars[IndexIn(c, UpperChars)] ELSE c

toLowerCase(s) == [i \in 1..Len(s) |-> LowerChar(s[i])]

IsLowerAlnum(c) == IndexIn(c, LowerChars) > 0 \/ IndexIn(c, DigitChars) > 0

RECURSIVE trimStart(_)
trimStart(s) ==
  IF s # <<>> /\ Head(s) \in SpaceChars THEN trimStart(Tail(s)) ELSE s

RECURSIVE trimEnd(_)
trimEnd(s) ==
  IF s # <<>> /\ s[Len(s)] \in SpaceChars
    THEN trimEnd(SubSeq(s, 1, Len(s) - 1))
    ELSE s

\* String.prototype.trim
trim(s) == trimEnd(trimStart(s))

\* Array.prototype.join
RECURSIVE join(_, _)
join(parts, sep) ==
  IF parts = <<>> THEN <<>>
  ELSE IF Len(parts) = 1 THEN parts[1]
  ELSE parts[1] \o sep \o join(Tail(parts), sep)

\* The collation rank of a character at the primary (letter) level:
\* white space and punctuation before digits before letters.
CollationOrder == <<" ", "\t", "\n", "-", "(", ")", ":">> \o DigitChars \o LowerChars

CharRank(c) ==
  LET i == IndexIn(LowerChar(c), CollationOrder)
  IN  IF i > 0 THEN i ELSE Len(CollationOrder) + 1

\* Lexicographic comparison of two strings by a rank of their characters:
\* negative, zero or positive.
RECURSIVE compareBy(_, _, _)
compareBy(rank(_), a, b) ==
  IF a = <<>> /\ b = <<>> THEN 0
  ELSE IF a = <<>> THEN -1
  ELSE IF b = <<>> THEN 1
  ELSE IF rank(Head(a)) < rank(Head(b)) THEN -1
  ELSE IF rank(Head(a)) > rank(Head(b)) THEN 1
  ELSE compareBy(rank, Tail(a), Tail(b))

\* Upper case sorts after lower case when the letters are otherwise equal.
CaseRank(c) == IF IndexIn(c, UpperChars) > 0 THEN 1 ELSE 0

\* a.localeCompare(b): letters first, letter case as the tie-break
localeCompare(a, b) == OrElse(compareBy(CharRank, a, b), compareBy(CaseRank, a, b))

\* a.localeCompare(b, undefined, { sensitivity: "base" }): letter case ignored
localeCompareBase(a, b) == compareBy(CharRank, a, b)

-----------------------------------------------------------------------------
(* notion/task-helpers.ts                                                  *)

DEFAULT_MEETING_PRIORITY == <<"M","e","e","t","i","n","g","s">>

PRIORITY_SEQUENCE ==
  << <<"r","e","m","e","m","b","e","r">>,
     <<"q","u","i","c","k","-","t","a","s","k">>,
     <<"1","s","t","-","p","r","i","o","r","i","t","y">>,
     <<"2","n","d","-","p","r","i","o","r","i","t","y">>,
     <<"3","r","d","-","p","r","i","o","r","i","t","y">>,
     <<"4","t","h","-","p","r","i","o","r","i","t","y">>,
     <<"5","t","h","-","p","r","i","o","r","i","t","y">>,
     <<"e","r","r","a","n","d">>,
     <<"m","e","e","t","i","n","g","s">> >>

\* PRIORITY_ALIASES as a sequence of <<alias, canonical>> pairs
PRIORITY_ALIASES ==
  << << <<"f","i","r","s","t","-","p","r","i","o","r","i","t","y">>,
        <<"1","s","t","-","p","r","i","o","r","i","t","y">> >>,
     << <<"s","e","c","o","n","d","-","p","r","i","o","r","i","t","y">>,
        <<"2","n","d","-","p","r","i","o","r","i","t","y">> >>,
     << <<"t","h","i","r","d","-","p","r","i","o","r","i","t","y">>,
        <<"3","r","d","-","p","r","i","o","r","i","t","y">> >>,
     << <<"f","o","u","r","t","h","-","p","r","i","o","r","i","t","y">>,
        <<"4","t","h","-","p","r","i","o","r","i","t","y">> >>,
     << <<"f","i","f","t","h","-","p","r","i","o","r","i","t","y">>,
        <<"5","t","h","-","p","r","i","o","r","i","t","y">> >> >>

\* PRIORITY_ORDER[key]: the 0-based index of key in PRIORITY_SEQUENCE, or
\* undefined
PRIORITY_ORDER(key) ==
  IF IndexIn(key, PRIORITY_SEQUENCE) > 0
    THEN Some(IndexIn(key, PRIORITY_SEQUENCE) - 1)
    ELSE None

METRIC_VALUES ==
  << <<"t","o","t","a","l">>,
     <<"c","o","m","p","l","e","t","e","d">>,
     <<"a","c","t","i","v","e">>,
     <<"n","e","x","t","M","e","e","t","i","n","g">>,
     <<"b","y","P","i","l","l","a","r">>,
     <<"b","y","P","r","o","j","e","c","t">> >>

DEFAULT_METRICS_ORDER == METRIC_VALUES

\* replace(/[^a-z0-9]+/g, "-"): inRun says the previous character was
\* already replaced
RECURSIVE hyphenateRuns(_, _)
hyphenateRuns(s, inRun) ==
  IF s = <<>> THEN <<>>
  ELSE IF IsLowerAlnum(Head(s)) THEN <<Head(s)>> \o hyphenateRuns(Tail(s), FALSE)
  ELSE IF inRun THEN hyphenateRuns(Tail(s), TRUE)
  ELSE <<"-">> \o hyphenateRuns(Tail(s), TRUE)

\* replace(/^-+|-+$/g, "")
RECURSIVE stripHyphens(_)
stripHyphens(s) ==
  IF s # <<>> /\ Head(s) = "-" THEN stripHyphens(Tail(s))
  ELSE IF s # <<>> /\ s[Len(s)] = "-" THEN stripHyphens(SubSeq(s, 1, Len(s) - 1))
  ELSE s

normalizePriorityKey(value) ==
  stripHyphens(hyphenateRuns(toLowerCase(value), FALSE))

\* a JavaScript string | undefined is falsy when undefined or empty
Falsy(o) == o = None \/ Get(o) = <<>>

\* no alias
aliasOfNone(key) == key

aliasOf(key) ==
  IF \E i \in 1..Len(PRIORITY_ALIASES) : PRIORITY_ALIASES[i][1] = key
    THEN PRIORITY_ALIASES[CHOOSE i \in 1..Len(PRIORITY_ALIASES) :
                            PRIORITY_ALIASES[i][1] = key][2]
    ELSE key

prioritySortIndex(priority) ==
  LET index(normalizedKey) ==
        IF normalizedKey = <<>> THEN None ELSE PRIORITY_ORDER(aliasOf(normalizedKey))
  IN  IF Falsy(priority) THEN Len(PRIORITY_SEQUENCE) + 1
      ELSE OrDefault(index(normalizePriorityKey(Get(priority))),
                     Len(PRIORITY_SEQUENCE) + 1)

\* a comparison that puts a missing date first
compareDateStringsMissingFirst(a, b) ==
  IF Falsy(a) /\ Falsy(b) THEN 0
  ELSE IF Falsy(a) THEN -1
  ELSE IF Falsy(b) THEN 1
  ELSE localeCompare(Get(a), Get(b))

compareDateStrings(a, b) ==
  IF Falsy(a) /\ Falsy(b) THEN 0
  ELSE IF Falsy(a) THEN 1
  ELSE IF Falsy(b) THEN -1
  ELSE localeCompare(Get(a), Get(b))

\* the comparator sortTasks hands to Array.prototype.sort: dueCompare, then
\* priorityCompare, then the titles
compareTasks(a, b) ==
  OrElse(compareDateStrings(a.due, b.due),
         OrElse(prioritySortIndex(a.priority) - prioritySortIndex(b.priority),
                localeCompareBase(a.title, b.title)))

\* Array.prototype.sort is stable: x goes after every element that does not
\* compare greater than it
insertSorted(sorted, x) ==
  LET place(k) == SubSeq(sorted, 1, k - 1) \o <<x>> \o SubSeq(sorted, k, Len(sorted))
  IN  place(firstIn({i \in 1..Len(sorted) : compareTasks(sorted[i], x) > 0},
                    Len(sorted) + 1))

RECURSIVE sortInto(_, _)
sortInto(sorted, rest) ==
  IF rest = <<>> THEN sorted
  ELSE sortInto(insertSorted(sorted, Head(rest)), Tail(rest))

\* the list as it is given
sortTasksAsGiven(taskList) == taskList

sortTasks(taskList) == sortInto(<<>>, taskList)

\* a sort of the caller's own list, which is returned
sortTasksInPlace(taskList) ==
  [argument |-> sortTasks(taskList), returned |-> sortTasks(taskList), sameList |-> TRUE]

\* tasks.slice().sort(compareTasks) as its caller sees it: the list passed
\* as it is after the call, the list returned, and whether the two are one
\* list; slice() copies the list and sort() sorts the copy
sortTasksCall(taskList) ==
  [argument |-> taskList, returned |-> sortTasks(taskList), sameList |-> FALSE]

normalizeComparable(value) == toLowerCase(trim(IF value = None THEN <<>> ELSE Get(value)))

\* a comparison of the status as it is written
isTaskCompletedExact(task, doneValue) ==
  IF Falsy(task.status) THEN FALSE ELSE Get(task.status) = doneValue

isTaskCompleted(task, doneValue) ==
  IF Falsy(task.status) THEN FALSE
  ELSE normalizeComparable(task.status) = normalizeComparable(Some(doneValue))

displayLabel(value, fallback) ==
  IF value = None THEN fallback ELSE OrDefault(nonEmpty(trim(Get(value))), fallback)

\* A Record<string, number> made by {} is a function from its own keys to
\* their values; a value is a number or, after + on a value that is not a
\* number, a string.
Num(n) == [number |-> n]
Str(text) == [string |-> text]
IsNumber(value) == DOMAIN value = {"number"}

EmptyStore == [k \in {} |-> Num(0)]

\* The functions {} inherits from Object.prototype, and its accessor
ObjectPrototypeFunctions ==
  {<<"c","o","n","s","t","r","u","c","t","o","r">>,
   <<"h","a","s","O","w","n","P","r","o","p","e","r","t","y">>,
   <<"i","s","P","r","o","t","o","t","y","p","e","O","f">>,
   <<"p","r","o","p","e","r","t","y","I","s","E","n","u","m","e","r","a","b","l","e">>,
   <<"t","o","L","o","c","a","l","e","S","t","r","i","n","g">>,
   <<"t","o","S","t","r","i","n","g">>,
   <<"v","a","l","u","e","O","f">>,
   <<"_","_","d","e","f","i","n","e","G","e","t","t","e","r","_","_">>,
   <<"_","_","d","e","f","i","n","e","S","e","t","t","e","r","_","_">>,
   <<"_","_","l","o","o","k","u","p","G","e","t","t","e","r","_","_">>,
   <<"_","_","l","o","o","k","u","p","S","e","t","t","e","r","_","_">>}

\* store[key] = (store[key] ?? 0) + 1.  A key {} inherits is not undefined:
\* the + appends "1" to the text of the function, "function Object() {
\* [native code] }" for constructor, and the setter of __proto__ ignores a
\* string.
incrementCount(store, key) ==
  LET put(value) == [k \in DOMAIN store \cup {key} |-> IF k = key THEN value ELSE store[k]]
      plusOne(value) == IF IsNumber(value) THEN Num(value.number + 1)
                        ELSE Str(value.string \o <<"1">>)
      nativeSource ==
        <<"f","u","n","c","t","i","o","n"," ">>
          \o (IF key = <<"c","o","n","s","t","r","u","c","t","o","r">>
                THEN <<"O","b","j","e","c","t">> ELSE key)
          \o <<"(",")"," ","{"," ","[","n","a","t","i","v","e"," ","c","o","d","e","]"," ","}">>
  IN  IF key = <<"_","_","p","r","o","t","o","_","_">> THEN store
      ELSE IF key \in DOMAIN store THEN put(plusOne(store[key]))
      ELSE IF key \in ObjectPrototypeFunctions THEN put(Str(nativeSource \o <<"1">>))
      ELSE put(Num(1))

Unspecified == <<"U","n","s","p","e","c","i","f","i","e","d">>

\* the meeting keys without the configured one
meetingKeysDefault(meetingPriority) ==
  {normalizePriorityKey(DEFAULT_MEETING_PRIORITY),
   <<"m","e","e","t","i","n","g">>,
   <<"m","e","e","t","i","n","g","s">>}

meetingKeysOf(meetingPriority) ==
  (IF normalizePriorityKey(meetingPriority) # <<>>
     THEN {normalizePriorityKey(meetingPriority)} ELSE {})
  \cup {normalizePriorityKey(DEFAULT_MEETING_PRIORITY),
        <<"m","e","e","t","i","n","g">>,
        <<"m","e","e","t","i","n","g","s">>}

\* one iteration of the loop of buildTaskSummary over acc =
\* [activeTasks, byPillar, byProject, completed, nextMeeting]
summaryStep(acc, task, doneValue, meetingKeys) ==
  IF isTaskCompleted(task, doneValue)
    THEN [acc EXCEPT !.completed = @ + 1]
    ELSE LET pick(isMeeting, counted) ==
               IF acc.nextMeeting = None /\ isMeeting
                 THEN [counted EXCEPT !.nextMeeting = Some(task)]
               ELSE IF acc.nextMeeting # None /\ isMeeting
                       /\ compareDateStrings(task.due, Get(acc.nextMeeting).due) < 0
                 THEN [counted EXCEPT !.nextMeeting = Some(task)]
               ELSE counted
         IN  pick(normalizePriorityKey(OrDefault(task.priority, <<>>)) \in meetingKeys,
                  [acc EXCEPT
                     !.activeTasks = Append(@, task),
                     !.byPillar = incrementCount(@, displayLabel(task.pillar, Unspecified)),
                     !.byProject = incrementCount(@, displayLabel(task.project, Unspecified))])

RECURSIVE summaryLoop(_, _, _, _)
summaryLoop(acc, taskList, doneValue, meetingKeys) ==
  IF taskList = <<>> THEN acc
  ELSE summaryLoop(summaryStep(acc, Head(taskList), doneValue, meetingKeys),
                   Tail(taskList), doneValue, meetingKeys)

summaryAt(taskList, doneValue, meetingPriority, metricsOrder, generatedAt) ==
  LET summaryOf(acc) ==
        [total |-> Len(taskList),
         completed |-> acc.completed,
         active |-> Len(acc.activeTasks),
         activeTasks |-> sortTasks(acc.activeTasks),
         byPillar |-> acc.byPillar,
         byProject |-> acc.byProject,
         nextMeeting |-> IF acc.nextMeeting = None /\ Len(acc.activeTasks) > 0
                           THEN Some(sortTasks(acc.activeTasks)[1])
                           ELSE acc.nextMeeting,
         meetingPriority |-> meetingPriority,
         metricsOrder |-> metricsOrder,
         generatedAt |-> generatedAt]
  IN  summaryOf(summaryLoop([activeTasks |-> <<>>, byPillar |-> EmptyStore,
                             byProject |-> EmptyStore, completed |-> 0,
                             nextMeeting |-> None],
                            taskList, doneValue, meetingKeysOf(meetingPriority)))

\* generatedAt: Date.now()
buildTaskSummary(taskList, doneValue, meetingPriority, metricsOrder) ==
  summaryAt(taskList, doneValue, meetingPriority, metricsOrder, now)

\* What a call raises when it reads a property of undefined or spreads it
TypeError == [thrown |-> "TypeError"]

\* buildTaskSummary as a caller may call it, meetingPriority and metricsOrder
\* being optional here: the parameters have no default values, so that
\* normalizePriorityKey(undefined) reads toLowerCase of undefined and
\* [...undefined] is not iterable
buildTaskSummaryCall(taskList, doneValue, meetingPriority, metricsOrder) ==
  IF meetingPriority = None THEN TypeError
  ELSE IF metricsOrder = None THEN TypeError
  ELSE buildTaskSummary(taskList, doneValue, Get(meetingPriority), Get(metricsOrder))

\* String.prototype.split on a one-character separator
RECURSIVE split(_, _, _)
split(s, sep, piece) ==
  IF s = <<>> THEN <<piece>>
  ELSE IF Head(s) = sep THEN <<piece>> \o split(Tail(s), sep, <<>>)
  ELSE split(Tail(s), sep, Append(piece, Head(s)))

\* a find that takes the identifiers as they are written
findMetricExact(normalized) ==
  IF IndexIn(normalized, METRIC_VALUES) > 0 THEN Some(normalized) ELSE None

\* METRIC_VALUES.find(value => value.toLowerCase() === normalized.toLowerCase())
findMetric(normalized) ==
  LET found(k) == IF k = 0 THEN None ELSE Some(METRIC_VALUES[k])
  IN  found(firstIn({i \in 1..Len(METRIC_VALUES) :
                       toLowerCase(METRIC_VALUES[i]) = toLowerCase(normalized)}, 0))

\* the loop of sanitizeMetricsOrder: seen is the Set, in insertion order
RECURSIVE collectMetrics(_, _)
collectMetrics(seen, candidates) ==
  LET add(metric) == IF metric # None /\ IndexIn(Get(metric), seen) = 0
                       THEN Append(seen, Get(metric)) ELSE seen
  IN  IF candidates = <<>> THEN seen
      ELSE collectMetrics(add(findMetric(trim(Head(candidates)))), Tail(candidates))

\* input is [kind |-> "array", items |-> <<string, ...>>],
\* [kind |-> "string", text |-> string] or [kind |-> "other"]
sanitizeMetricsOrder(input) ==
  LET NonEmpty(piece) == Len(piece) > 0
      trimmedPieces(pieces) ==
        SelectSeq([i \in 1..Len(pieces) |-> trim(pieces[i])], NonEmpty)
      orDefault(seen) == IF Len(seen) = 0 THEN DEFAULT_METRICS_ORDER ELSE seen
  IN  orDefault(collectMetrics(<<>>,
        IF input.kind = "array" THEN input.items
        ELSE IF input.kind = "string" THEN trimmedPieces(split(input.text, ",", <<>>))
        ELSE <<>>))

-----------------------------------------------------------------------------
(* actions/notion-today.ts: settings                                       *)

\* the value of a string of decimal digits
RECURSIVE digitsValue(_, _)
digitsValue(s, acc) ==
  IF s = <<>> \/ IndexIn(Head(s), DigitChars) = 0 THEN acc
  ELSE digitsValue(Tail(s), 10 * acc + (IndexIn(Head(s), DigitChars) - 1))

\* Number.parseInt(value, 10): undefined stands for NaN
parseInt10(value) ==
  LET t == trimStart(value)
      negative == t # <<>> /\ Head(t) = "-"
      body == IF t # <<>> /\ Head(t) \in {"-", "+"} THEN Tail(t) ELSE t
  IN  IF body = <<>> \/ IndexIn(Head(body), DigitChars) = 0 THEN None
      ELSE Some(IF negative THEN 0 - digitsValue(body, 0) ELSE digitsValue(body, 0))

\* value is undefined, [kind |-> "number", value |-> n] or
\* [kind |-> "string", text |-> string]
parsePosition(value) ==
  IF value = None THEN None
  ELSE IF Get(value).kind = "number" THEN Some(Get(value).value)
  ELSE LET positive(parsed) == IF parsed # None /\ Get(parsed) > 0 THEN parsed ELSE None
       IN  positive(parseInt10(Get(value).text))

\* the trim helper of normalizeSettings
trimSetting(value) ==
  IF value = None THEN None ELSE nonEmpty(trim(Get(value)))

normalizeSettings(settings) ==
  [token |-> trimSetting(settings.token),
   db |-> trimSetting(settings.db),
   statusProp |-> trimSetting(settings.statusProp),
   doneValue |-> trimSetting(settings.doneValue),
   dateProp |-> trimSetting(settings.dateProp),
   priorityProp |-> trimSetting(settings.priorityProp),
   pillarProp |-> trimSetting(settings.pillarProp),
   projectProp |-> trimSetting(settings.projectProp),
   meetingPriority |-> OrDefault(trimSetting(settings.meetingPriority),
                                 DEFAULT_MEETING_PRIORITY),
   metricsOrder |-> sanitizeMetricsOrder(
                      OrDefault(settings.metricsOrder,
                                [kind |-> "array", items |-> DEFAULT_METRICS_ORDER])),
   position |-> parsePosition(settings.position),
   dbProperties |-> settings.dbProperties]

\* ${value} in a template literal
templateText(o) == OrDefault(o, <<"u","n","d","e","f","i","n","e","d">>)

cacheKeyOf(normalized) ==
  join(<<templateText(normalized.token), templateText(normalized.db),
         templateText(normalized.statusProp), templateText(normalized.doneValue),
         templateText(normalized.dateProp), templateText(normalized.priorityProp),
         templateText(normalized.pillarProp), templateText(normalized.projectProp),
         normalized.meetingPriority,
         join(normalized.metricsOrder, <<";">>)>>, <<"|">>)

-----------------------------------------------------------------------------
(* Property extraction                                                     *)

\* A NotionPropertyValue is a record [type, status, select, multi_select,
\* rich_text, title, date]; every field but type is optional.
Prop(type) ==
  [type |-> type, status |-> None, select |-> None, multi_select |-> None,
   rich_text |-> None, title |-> None, date |-> None]

\* value?.name?.trim() || undefined
trimmedName(value) ==
  IF value = None THEN None
  ELSE IF Get(value).name = None THEN None
  ELSE nonEmpty(trim(Get(Get(value).name)))

\* the text with its white space as it is
keepSpaces(s, inRun) == s

\* replace(/\s+/g, " ")
RECURSIVE collapseSpaces(_, _)
collapseSpaces(s, inRun) ==
  IF s = <<>> THEN <<>>
  ELSE IF Head(s) \notin SpaceChars THEN <<Head(s)>> \o collapseSpaces(Tail(s), FALSE)
  ELSE IF inRun THEN collapseSpaces(Tail(s), TRUE)
  ELSE <<" ">> \o collapseSpaces(Tail(s), TRUE)

plainTexts(pieces) == [i \in 1..Len(pieces) |-> pieces[i].plain_text]

\* prop is optional
extractPropertyText(prop) ==
  IF prop = None THEN None
  ELSE LET p == Get(prop)
       IN  CASE p.type = "status" -> trimmedName(p.status)
             [] p.type = "select" -> trimmedName(p.select)
             [] p.type = "multi_select" ->
                  IF p.multi_select = None \/ Get(p.multi_select) = <<>> THEN None
                  ELSE trimmedName(Some(Get(p.multi_select)[1]))
             [] p.type = "rich_text" ->
                  LET raw == IF p.rich_text = None THEN <<>>
                             ELSE join(plainTexts(Get(p.rich_text)), <<" ">>)
                  IN  nonEmpty(trim(collapseSpaces(raw, FALSE)))
             [] OTHER -> None

extractDateValue(prop) ==
  IF prop = None THEN None
  ELSE IF Get(prop).type # "date" THEN None
  ELSE IF Get(prop).date = None THEN None
  ELSE IF Falsy(Get(Get(prop).date).start) THEN None
  ELSE nonEmpty(trim(Get(Get(Get(prop).date).start)))

\* page.properties is a sequence of [name, value] in the order of the keys;
\* page.properties[name] is optional
propertyOf(page, name) ==
  LET hits == {i \in 1..Len(page.properties) : page.properties[i].name = name}
  IN  IF hits = {} THEN None ELSE Some(page.properties[CHOOSE i \in hits : TRUE].value)

untitled == <<"(","u","n","t","i","t","l","e","d",")">>

extractTask(page, settings) ==
  LET titled == {i \in 1..Len(page.properties) : page.properties[i].value.type = "title"}
      titleProperty ==
        IF titled = {} THEN None
        ELSE Some(page.properties[CHOOSE i \in titled : \A j \in titled : i <= j].value)
      title == IF titleProperty = None \/ Get(titleProperty).title = None THEN untitled
               ELSE join(plainTexts(Get(Get(titleProperty).title)), <<>>)
      \* settings.x ? extractPropertyText(page.properties[settings.x]) : undefined
      text(name) == IF Falsy(name) THEN None
                    ELSE extractPropertyText(propertyOf(page, Get(name)))
  IN  [id |-> page.id,
       title |-> title,
       priority |-> text(settings.priorityProp),
       status |-> text(settings.statusProp),
       pillar |-> text(settings.pillarProp),
       project |-> text(settings.projectProp),
       due |-> IF Falsy(settings.dateProp) THEN None
               ELSE extractDateValue(propertyOf(page, Get(settings.dateProp)))]

-----------------------------------------------------------------------------
(* The environment: the data source, the keys, the settings the user can   *)
(* enter, the listeners                                                    *)

sTk == <<"t","k">>
sDbA == <<"d","A">>
sDbB == <<"d","B">>
sName == <<"N","a","m","e">>
sStatus == <<"S","t","a","t","u","s">>
sDue == <<"D","u","e">>
sStart == <<"S","t","a","r","t">>
sPriority == <<"P","r","i","o","r","i","t","y">>
sToDo == <<"T","o"," ","D","o">>
sDone == <<"D","o","n","e">>
sDay1 == <<"2","0","2","4","-","0","9","-","0","3">>
sDay2 == <<"2","0","2","4","-","0","9","-","0","4">>

\* toIsoDate(new Date()): the runs of the model stay within one day
today == sDay1

TitleProp(text) == [Prop("title") EXCEPT !.title = Some(<<[plain_text |-> text]>>)]
StatusProp(name) == [Prop("status") EXCEPT !.status = Some([name |-> Some(name)])]
SelectProp(name) == [Prop("select") EXCEPT !.select = Some([name |-> Some(name)])]
DateProp(start) == [Prop("date") EXCEPT !.date = Some([start |-> Some(start)])]

\* The pages of the two databases; the status of a page is the one field a
\* mark-done request changes, and is held in the variable pages.
PageIds == {"a1", "a2", "b1"}

PageDb(id) == IF id = "b1" THEN sDbB ELSE sDbA

PageTitle(id) ==
  CASE id = "a1" -> <<"W","r","i","t","e"," ","r","e","p","o","r","t">>
    [] id = "a2" -> <<"c","a","l","l"," ","B","o","b">>
    [] OTHER -> <<"S","t","a","n","d","u","p">>

PagePriority(id) ==
  CASE id = "a1" -> <<"2","n","d"," ","P","r","i","o","r","i","t","y">>
    [] id = "a2" -> <<"F","i","r","s","t"," ","P","r","i","o","r","i","t","y">>
    [] OTHER -> <<"M","e","e","t","i","n","g","s">>

\* The pages of database A are due today and the page of database B is due
\* tomorrow.  status is the status the data source holds for the page.
PageDue(id) == IF id = "b1" THEN sDay2 ELSE sDay1

pageOf(id, status) ==
  [id |-> id,
   properties |-> << [name |-> sName, value |-> TitleProp(PageTitle(id))],
                     [name |-> sStatus, value |-> StatusProp(status)],
                     [name |-> sDue, value |-> DateProp(PageDue(id))],
                     [name |-> sStart, value |-> DateProp(sDay2)],
                     [name |-> sPriority, value |-> SelectProp(PagePriority(id))] >>]

\* the schema of both databases, as settings._dbProperties holds it
Schema ==
  [n \in {sName, sStatus, sDue, sStart, sPriority} |->
     [type |-> CASE n = sName -> "title"
                 [] n = sStatus -> "status"
                 [] n = sPriority -> "select"
                 [] OTHER -> "date"]]

\* the order in which the data source lists its pages
PageOrder == <<"a1", "a2", "b1">>

\* POST databases/<db>/query: the pages of db that pass body.filter, where
\* stored[id] is the status the data source holds for the page id
queryAnswer(stored, db, body) ==
  LET Passes(id) ==
        /\ Some(PageDb(id)) = db
        /\ extractDateValue(propertyOf(pageOf(id, stored[id]), body.filter.property))
             = Some(body.filter.date.equals)
      listed(ids) == [i \in 1..Len(ids) |-> pageOf(ids[i], stored[ids[i]])]
  IN  listed(SelectSeq(PageOrder, Passes))

\* NotionSettings as the user can enter them
RawSettings(db, dateProp, dbProperties) ==
  [token |-> Some(sTk), db |-> Some(db), statusProp |-> Some(sStatus),
   doneValue |-> Some(sDone), dateProp |-> dateProp,
   priorityProp |-> Some(sPriority), pillarProp |-> None, projectProp |-> None,
   meetingPriority |-> None, metricsOrder |-> None, position |-> None,
   dbProperties |-> dbProperties]

NoSettings ==
  [token |-> None, db |-> None, statusProp |-> None, doneValue |-> None,
   dateProp |-> None, priorityProp |-> None, pillarProp |-> None,
   projectProp |-> None, meetingPriority |-> None, metricsOrder |-> None,
   position |-> None, dbProperties |-> None]

\* The settings a key can be given.  1: nothing entered.  2: database A by
\* its due date.  3: database B by its due date, where nothing is due today.
\* 4 to 7: a date property that queryNotion rejects (none selected, the
\* schema not loaded, a name the schema does not have, a property that is
\* not a date).
SettingsInputs ==
  << NoSettings,
     RawSettings(sDbA, Some(sDue), Some(Schema)),
     RawSettings(sDbB, Some(sDue), Some(Schema)),
     RawSettings(sDbA, None, Some(Schema)),
     RawSettings(sDbA, Some(sDue), None),
     RawSettings(sDbA, Some(sDone), Some(Schema)),
     RawSettings(sDbA, Some(sStatus), Some(Schema)) >>

\* the settings the keys are given in the runs of Spec, of SpecCache and of
\* SpecDateConfig
FetchInputs == {1, 2}
CacheInputs == {2, 3}
DateConfigInputs == {4, 5, 6, 7}

Keys == {"k1", "k2"}
Listeners == {"l1", "l2"}

\* settings.position as the user can enter it
PositionInputs == {None}

\* the bounds of the model
MaxProcs == 2       \* handler invocations suspended at the same time
Max429 == 1         \* rate-limit responses to one request
MaxTicks == 2       \* the clock stops after this many ticks
MaxEvents == 3      \* events of the host and of the user in one run

CACHE_WINDOW_MS == 60000
MAX_POSITION == 8
TickMs == CACHE_WINDOW_MS \div 2

-----------------------------------------------------------------------------
(* TaskCoordinator and NotionClient.  A handler is a state transformer on  *)
(* a record st of all the variables; an action commits the record its      *)
(* handler returns.  procs[p] is the invocation p suspended at an await:   *)
(* pc says at which one, role whether it is a refresh without settings.    *)
(* A promise is named by the invocation that created it.  seen is what the  *)
(* data source held when the request of the invocation was sent.           *)

\* no task helper has been called from outside the coordinator
NoCall == [fn |-> "", input |-> [none |-> TRUE], result |-> None, sameList |-> FALSE]

\* no habit key has appeared: the maps of the HabitCoordinator are empty
NoHabit ==
  [registered |-> FALSE, settings |-> "complete", habitRecord |-> None,
   error |-> None, cache |-> None, inflight |-> None, checkbox |-> FALSE,
   toggles |-> 0, awaits |-> <<>>, paints |-> <<>>, shown |-> None,
   clock |-> 0, events |-> 0]

\* no dial has appeared: no timeout is set, no callback and no request waits
NoDial == [kind |-> "none", timers |-> {}, callbacks |-> {}, taps |-> {}]

IdleProc ==
  [pc |-> "idle", key |-> None, live |-> FALSE, force |-> FALSE, settings |-> None,
   role |-> "", awaiting |-> 0, result |-> None, snapshot |-> <<>>,
   byPosition |-> <<>>, taskId |-> None, attempts |-> 0, seen |-> <<>>,
   held |-> None]

\* What a step did: op names the handler or the await that returned, p the
\* invocation, arg the key or the listener of an event, kind the response that
\* arrived and attempts how many times its request had been sent; sent and
\* patches count the requests the step sent, and calls, painted, fetches,
\* results and done list the listener calls, the paints, the calls of
\* fetchTodayTasks, the fetch results refresh received (with the cache key
\* and the database of its settings) and the invocations that returned.
NewEv(op, p) ==
  [op |-> op, p |-> p, arg |-> "", kind |-> "", attempts |-> 0, sent |-> 0,
   patches |-> 0, calls |-> <<>>, painted |-> <<>>, fetches |-> <<>>,
   results |-> <<>>, done |-> {}]

Cur ==
  [contexts |-> contexts, pendingRefreshes |-> pendingRefreshes, tasks |-> tasks,
   summary |-> summary, lastError |-> lastError, cacheKey |-> cacheKey,
   cachedTasks |-> cachedTasks, lastFetch |-> lastFetch, inflight |-> inflight,
   summaryListeners |-> summaryListeners, now |-> now, pages |-> pages,
   procs |-> procs, ev |-> ev, events |-> events]

Begin(op, p) == [Cur EXCEPT !.ev = NewEv(op, p)]

\* the step is an event of the host or of the user about the key or the
\* listener arg
BeginEvent(op, p, arg) == [Begin(op, p) EXCEPT !.events = @ + 1, !.ev.arg = arg]

\* the step is the arrival of a response of this kind to the request of p
BeginResponse(op, p, kind) ==
  [Begin(op, p) EXCEPT !.ev.kind = kind, !.ev.attempts = procs[p].attempts]

Commit(st) ==
  /\ contexts' = st.contexts
  /\ pendingRefreshes' = st.pendingRefreshes
  /\ tasks' = st.tasks
  /\ summary' = st.summary
  /\ lastError' = st.lastError
  /\ cacheKey' = st.cacheKey
  /\ cachedTasks' = st.cachedTasks
  /\ lastFetch' = st.lastFetch
  /\ inflight' = st.inflight
  /\ summaryListeners' = st.summaryListeners
  /\ now' = st.now
  /\ pages' = st.pages
  /\ procs' = st.procs
  /\ ev' = st.ev
  /\ events' = st.events
  /\ helperCall' = helperCall
  /\ habit' = habit
  /\ dial' = dial

FreeProcs == {p \in 1..MaxProcs : procs[p].pc = "idle"}
FreeProc == firstIn(FreeProcs, 0)

\* contexts is a sequence of ContextState [id, normalized, currentTask]
contextIds(ctxs) == {ctxs[i].id : i \in 1..Len(ctxs)}

contextOf(ctxs, id) == ctxs[CHOOSE i \in 1..Len(ctxs) : ctxs[i].id = id]

\* listeners that are handed the summary the step began with
notifyStale(st, value) ==
  [st EXCEPT !.ev.calls =
     @ \o [i \in 1..Len(st.summaryListeners) |->
             [listener |-> st.summaryListeners[i], value |-> summary]]]

\* summaryListeners.forEach(listener => listener(value))
notifySummaryListeners(st, value) ==
  [st EXCEPT !.ev.calls =
     @ \o [i \in 1..Len(st.summaryListeners) |->
             [listener |-> st.summaryListeners[i], value |-> value]]]

\* a paint that looks at the task before it looks at the error
visualOfTaskFirst(hasToken, hasDb, hasError, hasTask) ==
  IF ~hasToken \/ ~hasDb THEN "setup"
  ELSE IF hasTask THEN "task"
  ELSE IF hasError THEN "error"
  ELSE "empty"

\* the descriptor paint chooses
visualOf(hasToken, hasDb, hasError, hasTask) ==
  IF ~hasToken \/ ~hasDb THEN "setup"
  ELSE IF hasError THEN "error"
  ELSE IF ~hasTask THEN "empty"
  ELSE "task"

\* paint(state, task).  entry names the ContextState: it is live while it is
\* the one in contexts, and held is its normalized settings once it is not;
\* the image goes to the key in either case.  The record of the paint holds
\* what paint logs and the descriptor of the image; the error strings of the
\* coordinator are not empty.
paint(st, entry, task) ==
  LET normalized == IF entry.live THEN contextOf(st.contexts, entry.id).normalized
                    ELSE Get(entry.held)
      hasToken == ~Falsy(normalized.token)
      hasDb == ~Falsy(normalized.db)
      hasError == st.lastError # None
      hasTask == task # None
  IN  [st EXCEPT
         !.contexts = IF entry.live
                        THEN [i \in 1..Len(@) |->
                                IF @[i].id = entry.id
                                  THEN [@[i] EXCEPT !.currentTask = task] ELSE @[i]]
                        ELSE @,
         !.ev.painted = Append(@, [id |-> entry.id, live |-> entry.live, task |-> task,
                                   hasToken |-> hasToken, hasDb |-> hasDb,
                                   hasError |-> hasError, hasTask |-> hasTask,
                                   visual |-> visualOf(hasToken, hasDb, hasError, hasTask)])]

\* state.normalized.position ?? 0 of the ContextState entry names
positionOf(st, entry) ==
  IF entry.live THEN OrDefault(contextOf(st.contexts, entry.id).normalized.position, 0)
  ELSE entry.position

\* tasksByPosition.get(position)
taskAt(byPosition, position) ==
  IF position \in 1..Len(byPosition) THEN Some(byPosition[position]) ELSE None

\* Array.from(contexts.values()).sort by position: the sort is stable
RECURSIVE sortedFrom(_, _)
sortedFrom(ctxs, position) ==
  IF position > MAX_POSITION THEN <<>>
  ELSE LET At(c) == OrDefault(c.normalized.position, 0) = position
       IN  SelectSeq(ctxs, At) \o sortedFrom(ctxs, position + 1)

\* pendingRefreshes.get(key)
pendingOf(st, key) ==
  IF \E e \in st.pendingRefreshes : e.key = key
    THEN Some((CHOOSE e \in st.pendingRefreshes : e.key = key).promise)
    ELSE None

\* pendingRefreshes.set(key, promise)
pendingSet(pending, key, promise) ==
  {e \in pending : e.key # key} \cup {[key |-> key, promise |-> promise]}

\* a refresh that ends without calling the listeners
refreshDoneSilent(st, p) ==
  [st EXCEPT !.procs[p] = IdleProc, !.ev.done = @ \cup {p}]

\* The end of refresh of p, once the last await of paintAll has returned:
\* without settings the listeners are notified, and otherwise the finally
\* block deletes the entry of the cache key and the refreshes that await the
\* promise of p return.
refreshDone(st, p) ==
  IF st.procs[p].role = "unconfigured"
    THEN [notifySummaryListeners(st, st.summary)
            EXCEPT !.procs[p] = IdleProc, !.ev.done = @ \cup {p}]
    ELSE LET key == cacheKeyOf(Get(st.procs[p].settings))
             joined == {q \in DOMAIN st.procs :
                          st.procs[q].pc = "join" /\ st.procs[q].awaiting = p}
         IN  [st EXCEPT
                !.pendingRefreshes = {e \in @ : e.key # key},
                !.procs = [q \in DOMAIN @ |->
                             IF q = p \/ q \in joined THEN IdleProc ELSE @[q]],
                !.ev.done = @ \cup {p} \cup joined]

\* paintAll up to its first await: the first key is painted at once, the
\* others one by one as the awaits return.  With no key to paint there is
\* no await, and refresh ends in the same step.
paintAll(st, p) ==
  LET entries(sorted) ==
        [i \in 1..Len(sorted) |->
           [id |-> sorted[i].id, live |-> TRUE, held |-> None,
            position |-> OrDefault(sorted[i].normalized.position, 0)]]
      start(snapshot) ==
        IF snapshot = <<>> THEN refreshDone(st, p)
        ELSE paint([st EXCEPT !.procs[p].pc = "painting",
                              !.procs[p].byPosition = st.tasks,
                              !.procs[p].snapshot = Tail(snapshot)],
                   snapshot[1], taskAt(st.tasks, snapshot[1].position))
  IN  start(entries(sortedFrom(st.contexts, 0)))

\* the NormalizedSettings of the first key that has a token and a database
primarySettings(ctxs) ==
  LET Configured(c) == ~Falsy(c.normalized.token) /\ ~Falsy(c.normalized.db)
      first(configured) ==
        IF configured = <<>> THEN None ELSE Some(configured[1].normalized)
  IN  first(SelectSeq(ctxs, Configured))

assignPosition(ctxs, id, desired) ==
  IF desired # None /\ Get(desired) > 0 /\ Get(desired) <= MAX_POSITION
    THEN Get(desired)
    ELSE LET used == {OrDefault(ctxs[i].normalized.position, 0) :
                        i \in {j \in 1..Len(ctxs) : ctxs[j].id # id}}
             within(candidate) == IF candidate <= MAX_POSITION THEN candidate ELSE 1
         IN  within(firstIn({n \in 1..MAX_POSITION : n \notin used}, MAX_POSITION + 1))

normalizeAndAssign(ctxs, id, settings) ==
  LET assigned(normalized, assignedPosition) ==
        [normalized |-> [normalized EXCEPT !.position = Some(assignedPosition)],
         needsPersist |-> \/ normalized.position # Some(assignedPosition)
                          \/ (settings.position # None
                              /\ Get(settings.position).kind = "string")]
      assign(normalized) ==
        assigned(normalized, assignPosition(ctxs, id, normalized.position))
  IN  assign(normalizeSettings(settings))

\* What a promise of a fetch result settles with: thrown says it is rejected.
Result(list, error) == [tasks |-> list, error |-> error, thrown |-> FALSE]
Thrown(error) == [tasks |-> <<>>, error |-> Some(error), thrown |-> TRUE]

\* the checks of queryNotion without the check of the property's type
dateConfigErrorAnyType(settings) ==
  IF Falsy(settings.dateProp)
    THEN Some("Please select a date property in the settings")
  ELSE IF settings.dbProperties = None
    THEN Some("Database properties not loaded. Please refresh the settings.")
  ELSE IF Get(settings.dateProp) \notin DOMAIN Get(settings.dbProperties)
    THEN Some("The selected date property \"${settings.dateProp}\" was not found in the database. Please check your settings.")
  ELSE None

\* the checks of queryNotion before it sends the request: the error it
\* returns, if any.  A message is an atom: it is the text of the template,
\* with the names it interpolates left as written.
dateConfigError(settings) ==
  IF Falsy(settings.dateProp)
    THEN Some("Please select a date property in the settings")
  ELSE IF settings.dbProperties = None
    THEN Some("Database properties not loaded. Please refresh the settings.")
  ELSE IF Get(settings.dateProp) \notin DOMAIN Get(settings.dbProperties)
    THEN Some("The selected date property \"${settings.dateProp}\" was not found in the database. Please check your settings.")
  ELSE IF Get(settings.dbProperties)[Get(settings.dateProp)].type # "date"
    THEN Some("The selected property \"${settings.dateProp}\" is not a date property (type: ${propType}). Please select a date property.")
  ELSE None

\* the body of the request of queryNotion
queryBody(settings) ==
  [page_size |-> 100,
   filter |-> [property |-> Get(settings.dateProp), date |-> [equals |-> today]],
   sorts |-> <<[property |-> Get(settings.dateProp), direction |-> "ascending"]>>]

\* queryNotion up to its first await: p holds the result at once when the
\* settings fail the checks, and otherwise waits for the response to the
\* request it has sent
queryNotion(st, p, settings) ==
  IF dateConfigError(settings) # None
    THEN [st EXCEPT !.procs[p].pc = "resolved",
                    !.procs[p].result = Some(Result(<<>>, dateConfigError(settings)))]
    ELSE [st EXCEPT !.procs[p].pc = "query",
                    !.procs[p].attempts = 1,
                    !.procs[p].seen = st.pages,
                    !.ev.sent = @ + 1]

\* a queryNotion that does not send its request again after a 429
queryRetryDropped(st, p) == st

\* queryNotion after a 429 and the delay: return this.queryNotion(settings)
queryRetry(st, p) ==
  [st EXCEPT !.procs[p].attempts = @ + 1, !.procs[p].seen = st.pages, !.ev.sent = @ + 1]

\* a queryNotion whose catch block is missing: a fetch that throws rejects
\* the promise
queryOutcomeUncaught(stored, settings, kind) ==
  CASE kind = "http" -> Result(<<>>, Some("HTTP 500: Internal Server Error"))
    [] kind = "throw" -> Thrown("fetch failed")
    [] OTHER -> Result(<<>>, None)

\* what queryNotion returns once a response of this kind has arrived, stored
\* being the statuses the data source holds
queryOutcome(stored, settings, kind) ==
  LET tasksOf(found) ==
        sortTasks([i \in 1..Len(found) |-> extractTask(found[i], settings)])
  IN  CASE kind = "ok" ->
             Result(tasksOf(queryAnswer(stored, settings.db, queryBody(settings))), None)
        [] kind = "http" -> Result(<<>>, Some("HTTP 500: Internal Server Error"))
        [] OTHER -> Result(<<>>, Some("fetch failed"))

\* a cache window that serves an empty list too
inCacheWindowAnyList(st, key) ==
  /\ st.cacheKey = Some(key)
  /\ st.lastFetch # None
  /\ Get(st.lastFetch) # 0
  /\ st.now - Get(st.lastFetch) < CACHE_WINDOW_MS

\* inCacheWindow of fetchTodayTasks
inCacheWindow(st, key) ==
  /\ st.cacheKey = Some(key)
  /\ Len(st.cachedTasks) > 0
  /\ st.lastFetch # None
  /\ Get(st.lastFetch) # 0
  /\ st.now - Get(st.lastFetch) < CACHE_WINDOW_MS

\* fetchTodayTasks up to its first await.  procs[p].pc says how the call
\* goes on: "resolved" (the result is there), "fetchJoin" (it returned the
\* inflight promise of procs[p].awaiting) or "query" (its own request is
\* out).  A query that settles at once has run its finally callback too.
fetchTodayTasks(st, p, settings, force) ==
  LET key == cacheKeyOf(settings)
      call(how) == [p |-> p, key |-> key, force |-> force, how |-> how]
      own(q) == IF q.procs[p].pc = "resolved"
                  THEN [q EXCEPT !.inflight = None,
                                 !.ev.fetches = Append(@, call("invalid"))]
                  ELSE [q EXCEPT !.inflight = Some(p),
                                 !.ev.fetches = Append(@, call("query"))]
  IN  IF ~force /\ inCacheWindow(st, key)
        THEN [st EXCEPT !.procs[p].pc = "resolved",
                        !.procs[p].result = Some(Result(st.cachedTasks, None)),
                        !.ev.fetches = Append(@, call("cache"))]
      ELSE IF ~force /\ st.inflight # None /\ st.cacheKey = Some(key)
        THEN [st EXCEPT !.procs[p].pc = "fetchJoin",
                        !.procs[p].awaiting = Get(st.inflight),
                        !.ev.fetches = Append(@, call("inflight"))]
      ELSE own(queryNotion([st EXCEPT !.cacheKey = Some(key)], p, settings))

\* the rest of fetchTodayTasks of p once its own query has settled with
\* result: the finally callback, then the cache
fetchSettled(st, p, result) ==
  [st EXCEPT
     !.inflight = None,
     !.procs[p].seen = <<>>,
     !.cachedTasks = IF ~result.thrown /\ result.error = None THEN result.tasks ELSE @,
     !.lastFetch = IF ~result.thrown /\ result.error = None THEN Some(st.now) ELSE @]

\* the async function of refresh from the result of fetchTodayTasks on, up
\* to the first await of paintAll
refreshContinue(st, p, settings, result) ==
  LET seen == [st EXCEPT
                 !.ev.results = Append(@, [p |-> p, key |-> cacheKeyOf(settings),
                                           db |-> settings.db, result |-> result]),
                 !.procs[p].result = None]
      publish(built) ==
        paintAll(notifySummaryListeners(
                   [seen EXCEPT !.tasks = built.activeTasks, !.summary = Some(built),
                                !.lastError = result.error], Some(built)), p)
  IN  IF result.thrown
        THEN paintAll(notifySummaryListeners(
                        [seen EXCEPT !.lastError = result.error, !.tasks = <<>>,
                                     !.summary = None], None), p)
        ELSE publish(buildTaskSummary(result.tasks, OrDefault(settings.doneValue, sDone),
                                      settings.meetingPriority, settings.metricsOrder))

\* the refreshes whose fetchTodayTasks returned the inflight promise of p go
\* on with its result, in the same turn of the event loop
RECURSIVE joinedContinue(_, _, _)
joinedContinue(st, p, result) ==
  LET joined == {q \in DOMAIN st.procs :
                   st.procs[q].pc = "fetchJoin" /\ st.procs[q].awaiting = p}
      next(q) == joinedContinue(
                   refreshContinue([st EXCEPT !.procs[q].awaiting = 0], q,
                                   Get(st.procs[q].settings), result),
                   p, result)
  IN  IF joined = {} THEN st ELSE next(firstIn(joined, 0))

\* refresh(force) of the invocation p, up to its first await
refresh(st, p, force) ==
  LET \* attach holds the ContextState of its key while it awaits refresh
      caller == IF st.procs[p].pc = "attachPaint"
                  THEN [IdleProc EXCEPT !.key = st.procs[p].key,
                                        !.live = st.procs[p].live,
                                        !.held = st.procs[p].held]
                  ELSE IdleProc
      mine(settings) == [caller EXCEPT !.force = force, !.settings = Some(settings)]
      proceed(called, settings) ==
        IF called.procs[p].pc = "resolved"
          THEN refreshContinue(called, p, settings, Get(called.procs[p].result))
          ELSE called
      start(settings, key) ==
        IF pendingOf(st, key) # None /\ ~force
          THEN [st EXCEPT !.procs[p] = [mine(settings) EXCEPT
                                          !.pc = "join",
                                          !.awaiting = Get(pendingOf(st, key))]]
          ELSE proceed([fetchTodayTasks([st EXCEPT !.procs[p] = mine(settings)],
                                        p, settings, force)
                          EXCEPT !.pendingRefreshes = pendingSet(@, key, p)],
                       settings)
      withSettings(settings) == start(settings, cacheKeyOf(settings))
  IN  IF Len(st.contexts) = 0
        THEN [notifySummaryListeners([st EXCEPT !.tasks = <<>>, !.summary = None,
                                                !.lastError = None], None)
                EXCEPT !.procs[p] = IdleProc, !.ev.done = @ \cup {p}]
      ELSE IF primarySettings(st.contexts) = None
        THEN paintAll([st EXCEPT !.tasks = <<>>, !.summary = None, !.lastError = None,
                                 !.procs[p] = [caller EXCEPT !.role = "unconfigured"]], p)
      ELSE withSettings(Get(primarySettings(st.contexts)))

\* a markTaskDone that does not send its request again after a 429
markRetryStalls(st, p) == [st EXCEPT !.procs[p].pc = "stalled"]

\* markTaskDone after a 429 and the delay: return this.markTaskDone(...)
markRetry(st, p) == [st EXCEPT !.procs[p].attempts = @ + 1, !.ev.patches = @ + 1]

\* a markTaskDone that leaves the cache as it is
markTaskDoneKeepsCache(st, p) ==
  [st EXCEPT !.pages[Get(st.procs[p].taskId)] = Get(Get(st.procs[p].settings).doneValue),
             !.procs[p].pc = "showOk"]

\* markTaskDone once the PATCH has been answered 2xx: the page is done at
\* the data source and leaves the cache
markTaskDone(st, p) ==
  LET taskId == Get(st.procs[p].taskId)
      Others(task) == task.id # taskId
  IN  [st EXCEPT !.pages[taskId] = Get(Get(st.procs[p].settings).doneValue),
                 !.cachedTasks = SelectSeq(@, Others),
                 !.procs[p].pc = "showOk"]

\* a catch block that also empties the cache
markFailedDropsCache(st, p, message) ==
  [paint([st EXCEPT !.lastError = Some(message), !.cachedTasks = <<>>],
         [id |-> Get(st.procs[p].key), live |-> st.procs[p].live,
          held |-> st.procs[p].held, position |-> 0], None)
     EXCEPT !.procs[p] = IdleProc, !.ev.done = @ \cup {p}]

\* the catch block of handleKeyPress
markFailed(st, p, message) ==
  [paint([st EXCEPT !.lastError = Some(message)],
         [id |-> Get(st.procs[p].key), live |-> st.procs[p].live,
          held |-> st.procs[p].held, position |-> 0], None)
     EXCEPT !.procs[p] = IdleProc, !.ev.done = @ \cup {p}]

\* a subscribeToNotionSummary that does not call the listener
subscribeSilently(st, listener) ==
  [st EXCEPT
     !.summaryListeners = IF IndexIn(listener, @) > 0 THEN @ ELSE Append(@, listener)]

\* subscribeToNotionSummary(listener)
subscribeToNotionSummary(st, listener) ==
  [st EXCEPT
     !.summaryListeners = IF IndexIn(listener, @) > 0 THEN @ ELSE Append(@, listener),
     !.ev.calls = Append(@, [listener |-> listener, value |-> st.summary])]

\* an unsubscribe function that leaves the listener in the Set
unsubscribeKeeps(st, listener) == st

\* the function subscribeToNotionSummary returned:
\* summaryListeners.delete(listener)
unsubscribe(st, listener) ==
  LET Others(m) == m # listener
  IN  [st EXCEPT !.summaryListeners = SelectSeq(@, Others)]

-----------------------------------------------------------------------------
(* The actions: the events of the host, and the awaits that return         *)

Init ==
  /\ contexts = <<>>
  /\ pendingRefreshes = {}
  /\ tasks = <<>>
  /\ summary = None
  /\ lastError = None
  /\ cacheKey = None
  /\ cachedTasks = <<>>
  /\ lastFetch = None
  /\ inflight = None
  /\ summaryListeners = <<>>
  /\ now = TickMs
  /\ pages = [id \in PageIds |-> sToDo]
  /\ procs = [p \in 1..MaxProcs |-> IdleProc]
  /\ ev = NewEv("init", 0)
  /\ events = 0
  /\ helperCall = NoCall
  /\ habit = NoHabit
  /\ dial = NoDial

\* onWillAppear: attach up to the await of its paint
Attach(c, index, rawPosition) ==
  /\ events < MaxEvents
  /\ c \notin contextIds(contexts)
  /\ FreeProcs # {}
  /\ \E p \in {FreeProc},
        assigned \in {normalizeAndAssign(contexts, c,
                        [SettingsInputs[index] EXCEPT !.position = rawPosition])} :
       Commit(paint([BeginEvent("attach", p, c) EXCEPT
                       !.contexts = Append(@, [id |-> c,
                                               normalized |-> assigned.normalized,
                                               currentTask |-> None]),
                       !.procs[p] = [IdleProc EXCEPT !.pc = "attachPaint",
                                                     !.key = Some(c), !.live = TRUE]],
                    [id |-> c, live |-> TRUE, held |-> None, position |-> 0], None))

\* attach after its paint: await this.refresh()
AttachRefresh(p) ==
  /\ procs[p].pc = "attachPaint"
  /\ Commit(refresh(Begin("refresh", p), p, FALSE))

\* onWillDisappear: detach.  The ContextState of c is no longer in contexts,
\* but the paintAll and the handlers that hold it still do.
Detach(c) ==
  /\ events < MaxEvents
  /\ c \in contextIds(contexts)
  /\ FreeProcs # {}
  /\ \E p \in {FreeProc},
        position \in {OrDefault(contextOf(contexts, c).normalized.position, 0)},
        normalized \in {contextOf(contexts, c).normalized} :
       LET Others(ctx) == ctx.id # c
       IN  Commit(refresh(
             [BeginEvent("detach", p, c) EXCEPT
                !.contexts = SelectSeq(@, Others),
                !.procs = [q \in DOMAIN @ |->
                   [@[q] EXCEPT
                      !.live = IF procs[q].key = Some(c) THEN FALSE ELSE @,
                      !.held = IF procs[q].key = Some(c) /\ procs[q].live
                                 THEN Some(normalized) ELSE @,
                      !.snapshot = [i \in 1..Len(@) |->
                                      IF @[i].id = c /\ @[i].live
                                        THEN [@[i] EXCEPT !.live = FALSE,
                                                          !.held = Some(normalized),
                                                          !.position = position]
                                        ELSE @[i]]]]],
             p, FALSE))

\* onDidReceiveSettings: updateSettings
UpdateSettings(c, index, rawPosition) ==
  /\ events < MaxEvents
  /\ c \in contextIds(contexts)
  /\ FreeProcs # {}
  /\ \E p \in {FreeProc},
        assigned \in {normalizeAndAssign(contexts, c,
                        [SettingsInputs[index] EXCEPT !.position = rawPosition])} :
       Commit(refresh(
         [BeginEvent("updateSettings", p, c) EXCEPT
            !.contexts = [i \in 1..Len(@) |->
                            IF @[i].id = c
                              THEN [@[i] EXCEPT !.normalized = assigned.normalized]
                              ELSE @[i]]],
         p, TRUE))

\* onKeyUp: handleKeyPress up to the await of the PATCH of markTaskDone
KeyPress(c) ==
  /\ events < MaxEvents
  /\ c \in contextIds(contexts)
  /\ \E state \in {contextOf(contexts, c)}, primary \in {primarySettings(contexts)} :
       LET entry == [id |-> c, live |-> TRUE, held |-> None, position |-> 0]
       IN  IF state.currentTask = None \/ primary = None
             THEN Commit(BeginEvent("showAlert", 0, c))
           ELSE IF Falsy(Get(primary).statusProp) \/ Falsy(Get(primary).doneValue)
             THEN Commit(paint([BeginEvent("keyPress", 0, c) EXCEPT !.lastError =
                    Some("Please configure the status property and done value in settings")],
                    entry, None))
           ELSE IF Falsy(Get(primary).dateProp)
             THEN Commit(paint([BeginEvent("keyPress", 0, c) EXCEPT !.lastError =
                    Some("Please configure the date property in settings")],
                    entry, None))
           ELSE /\ FreeProcs # {}
                /\ Commit([BeginEvent("keyPress", FreeProc, c) EXCEPT
                     !.procs[FreeProc] =
                        [IdleProc EXCEPT !.pc = "mark", !.key = Some(c), !.live = TRUE,
                                         !.force = TRUE, !.settings = primary,
                                         !.taskId = Some(Get(state.currentTask).id),
                                         !.attempts = 1],
                     !.ev.patches = 1])

\* the data source accepts the PATCH when the status property is one
patchAccepted(settings) ==
  /\ Get(settings.statusProp) \in DOMAIN Schema
  /\ Schema[Get(settings.statusProp)].type = "status"

\* the PATCH of markTaskDone is answered; after a 429 and the delay it goes
\* out again
MarkResponse(p, kind) ==
  /\ procs[p].pc = "mark"
  /\ LET st == BeginResponse("markResponse", p, kind)
     IN  CASE kind = "rate" ->
                /\ procs[p].attempts <= Max429
                /\ Commit(markRetry(st, p))
           [] kind = "ok" ->
                /\ patchAccepted(Get(procs[p].settings))
                /\ Commit(markTaskDone(st, p))
           [] kind = "http" ->
                Commit(markFailed(st, p, "Failed to update task: Notion update failed 500"))
           [] OTHER ->
                Commit(markFailed(st, p, "Failed to update task: fetch failed"))

\* handleKeyPress after showOk: await this.refresh(true)
MarkRefresh(p) ==
  /\ procs[p].pc = "showOk"
  /\ Commit(refresh(Begin("markRefresh", p), p, TRUE))

\* The request of queryNotion is answered: after a 429 and the delay the
\* request goes out again, and any other response settles the query.  The
\* data source read its pages at some time between the request and the
\* response: the answer shows them as they were when the request was sent
\* or as they are now.
QueryResponse(p, kind) ==
  /\ procs[p].pc = "query"
  /\ IF kind = "rate"
       THEN /\ procs[p].attempts <= Max429
            /\ Commit(queryRetry(BeginResponse("queryResponse", p, kind), p))
       ELSE \E settings \in {Get(procs[p].settings)} :
            \E result \in {queryOutcome(stored, settings, kind) :
                               stored \in {procs[p].seen, pages}} :
              Commit(joinedContinue(
                       refreshContinue(
                         fetchSettled(BeginResponse("queryResponse", p, kind), p, result),
                         p, settings, result),
                       p, result))

\* an await of paintAll has returned: it paints its next key
PaintNext(p) ==
  /\ procs[p].pc = "painting"
  /\ procs[p].snapshot # <<>>
  /\ \E st \in {Begin("paint", p)}, entry \in {Head(procs[p].snapshot)} :
       Commit(paint([st EXCEPT !.procs[p].snapshot = Tail(@)], entry,
                    taskAt(procs[p].byPosition, positionOf(st, entry))))

\* paintAll has painted every key: refresh ends
RefreshDone(p) ==
  /\ procs[p].pc = "painting"
  /\ procs[p].snapshot = <<>>
  /\ Commit(refreshDone(Begin("refreshDone", p), p))

Subscribe(l) ==
  /\ events < MaxEvents
  /\ Commit(subscribeToNotionSummary(BeginEvent("subscribe", 0, l), l))

\* the function subscribeToNotionSummary returned is called
Unsubscribe(l) ==
  /\ events < MaxEvents
  /\ IndexIn(l, summaryListeners) > 0
  /\ Commit(unsubscribe(BeginEvent("unsubscribe", 0, l), l))

Tick ==
  /\ now < (MaxTicks + 1) * TickMs
  /\ Commit([Begin("tick", 0) EXCEPT !.now = @ + TickMs])

ResponseKinds == {"ok", "rate", "http", "throw"}

\* The events without the clock: two keys, with no settings or with those of
\* database A.
Next ==
  \/ \E c \in Keys, i \in FetchInputs, rp \in PositionInputs : Attach(c, i, rp)
  \/ \E p \in 1..MaxProcs : AttachRefresh(p)
  \/ \E c \in Keys : Detach(c)
  \/ \E c \in Keys, i \in FetchInputs, rp \in PositionInputs : UpdateSettings(c, i, rp)
  \/ \E c \in Keys : KeyPress(c)
  \/ \E p \in 1..MaxProcs, kind \in ResponseKinds : MarkResponse(p, kind)
  \/ \E p \in 1..MaxProcs : MarkRefresh(p)
  \/ \E p \in 1..MaxProcs, kind \in ResponseKinds : QueryResponse(p, kind)
  \/ \E p \in 1..MaxProcs : PaintNext(p)
  \/ \E p \in 1..MaxProcs : RefreshDone(p)
  \/ \E l \in Listeners : Subscribe(l)
  \/ \E l \in Listeners : Unsubscribe(l)

Spec == Init /\ [][Next]_vars

\* The data source answers: a request that is waiting for its response is
\* sooner or later answered with a status other than 429.  fetch settles
\* every request, and the delay after a 429 is a timer that fires.  Waiting
\* is when such a response can arrive, and Answered is the step that
\* handles it.
Waiting(p) == procs[p].pc \in {"query", "mark"}

Answered(p) ==
  /\ Waiting(p)
  /\ ev'.op \in {"queryResponse", "markResponse"}
  /\ ev'.p = p
  /\ ev'.kind \in {"ok", "http"}

\* the keys appear with the settings of database A and are pressed
NextAnswered ==
  \/ \E c \in Keys : Attach(c, 2, None)
  \/ \E p \in 1..MaxProcs : AttachRefresh(p)
  \/ \E c \in Keys : KeyPress(c)
  \/ \E p \in 1..MaxProcs, kind \in {"ok", "rate", "http"} : MarkResponse(p, kind)
  \/ \E p \in 1..MaxProcs : MarkRefresh(p)
  \/ \E p \in 1..MaxProcs, kind \in {"ok", "rate", "http"} : QueryResponse(p, kind)
  \/ \E p \in 1..MaxProcs : PaintNext(p)
  \/ \E p \in 1..MaxProcs : RefreshDone(p)

\* weak fairness of Answered(p), which is enabled exactly while Waiting(p):
\* WF_vars(Answered(p)) with ENABLED <<Answered(p)>>_vars written as Waiting(p)
SpecAnswered ==
  /\ Init /\ [][NextAnswered]_vars
  /\ \A p \in 1..MaxProcs : []<>(~Waiting(p)) \/ []<><<Answered(p)>>_vars

\* The cache under the clock: two keys with the settings of database A or of
\* database B, queries that succeed or fail.
CacheKinds == {"ok", "http"}

NextCache ==
  \/ \E c \in Keys, i \in CacheInputs, rp \in PositionInputs : Attach(c, i, rp)
  \/ \E p \in 1..MaxProcs : AttachRefresh(p)
  \/ \E c \in Keys : Detach(c)
  \/ \E c \in Keys, i \in CacheInputs, rp \in PositionInputs : UpdateSettings(c, i, rp)
  \/ \E p \in 1..MaxProcs, kind \in CacheKinds : QueryResponse(p, kind)
  \/ \E p \in 1..MaxProcs : PaintNext(p)
  \/ \E p \in 1..MaxProcs : RefreshDone(p)
  \/ Tick

SpecCache == Init /\ [][NextCache]_vars

\* The keys are given settings whose date property queryNotion rejects.
NextDateConfig ==
  \/ \E c \in Keys, i \in DateConfigInputs, rp \in PositionInputs : Attach(c, i, rp)
  \/ \E p \in 1..MaxProcs : AttachRefresh(p)
  \/ \E c \in Keys : Detach(c)
  \/ \E c \in Keys, i \in DateConfigInputs, rp \in PositionInputs :
       UpdateSettings(c, i, rp)
  \/ \E c \in Keys : KeyPress(c)
  \/ \E p \in 1..MaxProcs : PaintNext(p)
  \/ \E p \in 1..MaxProcs : RefreshDone(p)

SpecDateConfig == Init /\ [][NextDateConfig]_vars

\* The listeners: both are subscribed at the start, and the keys come and go
\* with no settings or with those of database A.
InitListeners ==
  /\ contexts = <<>>
  /\ pendingRefreshes = {}
  /\ tasks = <<>>
  /\ summary = None
  /\ lastError = None
  /\ cacheKey = None
  /\ cachedTasks = <<>>
  /\ lastFetch = None
  /\ inflight = None
  /\ summaryListeners = <<"l1", "l2">>
  /\ now = TickMs
  /\ pages = [id \in PageIds |-> sToDo]
  /\ procs = [p \in 1..MaxProcs |-> IdleProc]
  /\ ev = NewEv("init", 0)
  /\ events = 0
  /\ helperCall = NoCall
  /\ habit = NoHabit
  /\ dial = NoDial

NextListeners ==
  \/ \E c \in Keys, i \in FetchInputs, rp \in PositionInputs : Attach(c, i, rp)
  \/ \E p \in 1..MaxProcs : AttachRefresh(p)
  \/ \E c \in Keys : Detach(c)
  \/ \E c \in Keys, i \in FetchInputs, rp \in PositionInputs : UpdateSettings(c, i, rp)
  \/ \E p \in 1..MaxProcs, kind \in CacheKinds : QueryResponse(p, kind)
  \/ \E p \in 1..MaxProcs : PaintNext(p)
  \/ \E p \in 1..MaxProcs : RefreshDone(p)
  \/ \E l \in Listeners : Subscribe(l)
  \/ \E l \in Listeners : Unsubscribe(l)

SpecListeners == InitListeners /\ [][NextListeners]_vars

\* The positions of the keys: keys without a token appear, disappear and have
\* their settings saved, with no position, with the position 1 as a number
\* or with the position 2 as the property inspector writes it, a string.
PositionChoices ==
  {None, Some([kind |-> "number", value |-> 1]), Some([kind |-> "string", text |-> <<"2">>])}

NextPositions ==
  \/ \E c \in Keys, rp \in PositionChoices : Attach(c, 1, rp)
  \/ \E p \in 1..MaxProcs : AttachRefresh(p)
  \/ \E c \in Keys : Detach(c)
  \/ \E c \in Keys, rp \in PositionChoices : UpdateSettings(c, 1, rp)
  \/ \E p \in 1..MaxProcs : PaintNext(p)
  \/ \E p \in 1..MaxProcs : RefreshDone(p)

SpecPositions == Init /\ [][NextPositions]_vars

\* A refresh racing a mark-done.  At the start key k1 shows the first task
\* of database A, whose tasks a first refresh has fetched, published and
\* cached; the settings are saved again, keys are pressed and a second key
\* appears.
RaceStart ==
  /\ now = TickMs
  /\ pages = [id \in PageIds |-> sToDo]
  /\ \E normalized \in {normalizeAndAssign(<<>>, "k1", SettingsInputs[2]).normalized} :
      \E fetched \in {queryOutcome(pages, normalized, "ok").tasks} :
      \E built \in {buildTaskSummary(fetched, OrDefault(normalized.doneValue, sDone),
                                     normalized.meetingPriority,
                                     normalized.metricsOrder)} :
        /\ contexts = << [id |-> "k1", normalized |-> normalized,
                          currentTask |-> taskAt(built.activeTasks, 1)] >>
        /\ tasks = built.activeTasks
        /\ summary = Some(built)
        /\ cacheKey = Some(cacheKeyOf(normalized))
        /\ cachedTasks = fetched
  /\ lastError = None
  /\ lastFetch = Some(TickMs)
  /\ inflight = None
  /\ pendingRefreshes = {}
  /\ summaryListeners = <<>>
  /\ procs = [p \in 1..MaxProcs |-> IdleProc]

InitRace ==
  /\ RaceStart
  /\ ev = NewEv("init", 0)
  /\ events = 0
  /\ helperCall = NoCall
  /\ habit = NoHabit
  /\ dial = NoDial

RaceInputs == {2}

NextRace ==
  \/ \E c \in Keys, i \in RaceInputs, rp \in PositionInputs : Attach(c, i, rp)
  \/ \E p \in 1..MaxProcs : AttachRefresh(p)
  \/ \E c \in Keys, i \in RaceInputs, rp \in PositionInputs : UpdateSettings(c, i, rp)
  \/ \E c \in Keys : KeyPress(c)
  \/ \E p \in 1..MaxProcs, kind \in CacheKinds : MarkResponse(p, kind)
  \/ \E p \in 1..MaxProcs : MarkRefresh(p)
  \/ \E p \in 1..MaxProcs, kind \in CacheKinds : QueryResponse(p, kind)
  \/ \E p \in 1..MaxProcs : PaintNext(p)
  \/ \E p \in 1..MaxProcs : RefreshDone(p)

SpecRace == InitRace /\ [][NextRace]_vars

\* The task helpers called on their own.  A call takes a batch of up to
\* MaxBatch of the tasks of TaskPool with a done value and a meeting priority,
\* or a priority label, and keeps what the helper returned.
MaxBatch == 3

sCalls == <<"C","a","l","l","s">>

TaskPool ==
  << [id |-> "t1", title |-> <<"a","l","p","h","a">>,
      status |-> None, priority |-> Some(<<"1","s","t"," ","P","r","i","o","r","i","t","y">>),
      due |-> Some(sDay1), pillar |-> Some(<<"W","o","r","k">>), project |-> Some(<<"P","l","u","g","i","n">>)],
     [id |-> "t2", title |-> <<"B","e","t","a">>,
      status |-> Some(<<"T","o"," ","D","o">>), priority |-> Some(<<"F","i","r","s","t"," ","P","r","i","o","r","i","t","y">>),
      due |-> Some(sDay1), pillar |-> Some(<<" ","W","o","r","k"," ">>), project |-> None],
     [id |-> "t3", title |-> <<"b","e","t","a">>,
      status |-> Some(<<" ","d","o","n","e"," ">>), priority |-> Some(<<"M","e","e","t","i","n","g","s">>),
      due |-> Some(sDay1), pillar |-> Some(<<"W","o","r","k">>), project |-> Some(<<"P","l","u","g","i","n">>)],
     [id |-> "t4", title |-> <<"C","a","l","l">>,
      status |-> None, priority |-> Some(<<"M","e","e","t","i","n","g">>),
      due |-> Some(sDay2), pillar |-> None, project |-> Some(<<" "," ">>)],
     [id |-> "t5", title |-> <<"c","a","l","l">>,
      status |-> Some(<<"D","O","N","E">>), priority |-> Some(<<"C","a","l","l","s">>),
      due |-> None, pillar |-> Some(<<"H","o","m","e">>), project |-> Some(<<"P","l","u","g","i","n">>)],
     [id |-> "t6", title |-> <<"s","y","n","c">>,
      status |-> Some(<<"T","o"," ","D","o">>), priority |-> Some(<<"m","e","e","t","i","n","g","s">>),
      due |-> Some(sDay2), pillar |-> Some(<<"c","o","n","s","t","r","u","c","t","o","r">>), project |-> Some(<<"_","_","p","r","o","t","o","_","_">>)],
     [id |-> "t7", title |-> <<"E","r","r","a","n","d">>,
      status |-> Some(<<>>), priority |-> None,
      due |-> Some(<<>>), pillar |-> Some(<<"H","o","m","e">>), project |-> None],
     [id |-> "t8", title |-> <<"s","t","a","n","d","u","p">>,
      status |-> None, priority |-> Some(<<"C","a","l","l","s">>),
      due |-> Some(sDay1), pillar |-> Some(<<"H","o","m","e">>), project |-> Some(<<"U","n","s","p","e","c","i","f","i","e","d">>)],
     [id |-> "t9", title |-> <<"A","L","P","H","A">>,
      status |-> None, priority |-> Some(<<"1","s","t","-","p","r","i","o","r","i","t","y">>),
      due |-> Some(sDay1), pillar |-> Some(<<"W","o","r","k">>), project |-> Some(<<"P","l","u","g","i","n">>)] >>

Batches ==
  {[i \in DOMAIN pick |-> TaskPool[pick[i]]] :
     pick \in {f \in UNION {[1..n -> DOMAIN TaskPool] : n \in 0..MaxBatch} :
                \A i, j \in DOMAIN f : i # j => f[i] # f[j]}}

Labels ==
  {None,
   Some(<<>>),
   Some(<<" ">>),
   Some(<<"R","e","m","e","m","b","e","r">>),
   Some(<<"q","u","i","c","k"," ","t","a","s","k">>),
   Some(<<"Q","u","i","c","k","-","T","a","s","k">>),
   Some(<<"1","s","t"," ","P","r","i","o","r","i","t","y">>),
   Some(<<"F","i","r","s","t"," ","P","r","i","o","r","i","t","y">>),
   Some(<<"2","n","d"," ","p","r","i","o","r","i","t","y">>),
   Some(<<"S","E","C","O","N","D"," ","P","R","I","O","R","I","T","Y">>),
   Some(<<"3","r","d"," ","P","r","i","o","r","i","t","y">>),
   Some(<<"t","h","i","r","d","_","p","r","i","o","r","i","t","y">>),
   Some(<<"4","t","h"," ","P","r","i","o","r","i","t","y">>),
   Some(<<"F","o","u","r","t","h"," ","P","r","i","o","r","i","t","y">>),
   Some(<<"5","t","h"," ","P","r","i","o","r","i","t","y">>),
   Some(<<"f","i","f","t","h"," ","p","r","i","o","r","i","t","y">>),
   Some(<<"E","r","r","a","n","d">>),
   Some(<<"M","e","e","t","i","n","g","s">>),
   Some(<<"m","e","e","t","i","n","g">>),
   Some(<<"S","i","x","t","h"," ","P","r","i","o","r","i","t","y">>),
   Some(<<"c","o","n","s","t","r","u","c","t","o","r">>),
   Some(<<"U","r","g","e","n","t">>),
   Some(<<"M","e","e","t","i","n","g">>), Some(<<"m","e","e","t","i","n","g","s">>), Some(sCalls),
   Some(<<"1","s","t","-","p","r","i","o","r","i","t","y">>)}

\* The metrics orders a caller of buildTaskSummary passes: none, an empty
\* one, one that names a metric twice, one with an unknown name, the default
MetricsOrders ==
  {None, Some(<<>>),
   Some(<< <<"t","o","t","a","l">>, <<"t","o","t","a","l">> >>),
   Some(<< <<"b","o","g","u","s">>, <<"a","c","t","i","v","e">> >>),
   Some(DEFAULT_METRICS_ORDER)}

\* The values of the metricsOrder setting: an array, a string or another
\* value; pieces are the entries of the array or between the commas
OrderSettings ==
  {[kind |-> "array", items |-> <<  >>, pieces |-> <<  >>],
   [kind |-> "array", items |-> << <<"A","c","t","i","v","e">>, <<"t","o","t","a","l">>, <<"A","C","T","I","V","E">> >>, pieces |-> << <<"A","c","t","i","v","e">>, <<"t","o","t","a","l">>, <<"A","C","T","I","V","E">> >>],
   [kind |-> "array", items |-> << <<"b","o","g","u","s">>, <<" ","b","y","P","i","l","l","a","r"," ">>, <<"n","e","x","t","m","e","e","t","i","n","g">>, <<"b","y","P","i","l","l","a","r">> >>, pieces |-> << <<"b","o","g","u","s">>, <<" ","b","y","P","i","l","l","a","r"," ">>, <<"n","e","x","t","m","e","e","t","i","n","g">>, <<"b","y","P","i","l","l","a","r">> >>],
   [kind |-> "array", items |-> << <<"B","Y","P","R","O","J","E","C","T">>, <<"c","o","m","p","l","e","t","e","d">>, <<"b","y","P","r","o","j","e","c","t">>, <<"C","o","m","p","l","e","t","e","d">> >>, pieces |-> << <<"B","Y","P","R","O","J","E","C","T">>, <<"c","o","m","p","l","e","t","e","d">>, <<"b","y","P","r","o","j","e","c","t">>, <<"C","o","m","p","l","e","t","e","d">> >>],
   [kind |-> "string", text |-> <<>>, pieces |-> <<  >>],
   [kind |-> "string", text |-> <<"a","c","t","i","v","e",","," ","T","o","t","a","l",",","a","c","t","i","v","e">>, pieces |-> << <<"a","c","t","i","v","e">>, <<" ","T","o","t","a","l">>, <<"a","c","t","i","v","e">> >>],
   [kind |-> "string", text |-> <<"x",",",",","y">>, pieces |-> << <<"x">>, <<>>, <<"y">> >>],
   [kind |-> "string", text |-> <<" ","c","o","m","p","l","e","t","e","d"," ",",","N","E","X","T","M","E","E","T","I","N","G",",",",","t","o","t","a","l"," ">>, pieces |-> << <<" ","c","o","m","p","l","e","t","e","d"," ">>, <<"N","E","X","T","M","E","E","T","I","N","G">>, <<>>, <<"t","o","t","a","l"," ">> >>],
   [kind |-> "other", pieces |-> << >>]}

\* Pages as the data source returns them: without a title property, with a
\* title of no fragment, of an empty fragment, of fragments with text
TitlePages ==
  {[id |-> "p1", properties |-> << [name |-> sStatus, value |-> StatusProp(sToDo)] >>],
   [id |-> "p2", properties |-> << [name |-> sName, value |-> Prop("title")] >>]}
    \cup {[id |-> "p3",
           properties |-> << [name |-> sStatus, value |-> StatusProp(sToDo)],
                             [name |-> sName,
                              value |-> [Prop("title") EXCEPT !.title = Some(fragments)]] >>] :
            fragments \in {<<>>, << [plain_text |-> <<>>] >>,
                           << [plain_text |-> <<" ">>] >>,
                           << [plain_text |-> <<"H","i"," ">>], [plain_text |-> <<"y","o","u">>] >>}}

\* rich_text values: no list, and lists of no, one and several fragments
RichTexts ==
  {None,
   Some(<<  >>),
   Some(<< [plain_text |-> <<" "," ","h","e","l","l","o">>], [plain_text |-> <<"w","o","r","l","d"," "," ">>] >>),
   Some(<< [plain_text |-> <<"a">>], [plain_text |-> <<"b">>] >>),
   Some(<< [plain_text |-> <<"a"," ","\t"," "," ","b">>] >>),
   Some(<< [plain_text |-> <<" ">>], [plain_text |-> <<"\t">>] >>),
   Some(<< [plain_text |-> <<"x">>] >>),
   Some(<< [plain_text |-> <<"a"," ">>], [plain_text |-> <<" ","b">>], [plain_text |-> <<"c">>] >>),
   Some(<< [plain_text |-> <<>>] >>),
   Some(<< [plain_text |-> <<>>], [plain_text |-> <<"a">>], [plain_text |-> <<>>] >>)}

HelperInputs ==
  [batch : Batches,
   doneValue : {sDone, <<"t","o"," ","d","o"," ">>},
   meetingPriority : {DEFAULT_MEETING_PRIORITY, sCalls}]
    \cup [label : Labels]
    \cup [taskList : {b \in Batches : Len(b) <= 1},
          doneValue : {sDone},
          meetingPriority : {None, Some(DEFAULT_MEETING_PRIORITY)},
          metricsOrder : MetricsOrders]
    \cup [order : OrderSettings]
    \cup [page : TitlePages]
    \cup [rich_text : RichTexts]

InitHelpers ==
  /\ contexts = <<>>
  /\ pendingRefreshes = {}
  /\ tasks = <<>>
  /\ summary = None
  /\ lastError = None
  /\ cacheKey = None
  /\ cachedTasks = <<>>
  /\ lastFetch = None
  /\ inflight = None
  /\ summaryListeners = <<>>
  /\ now = TickMs
  /\ pages = [id \in PageIds |-> sToDo]
  /\ procs = [p \in 1..MaxProcs |-> IdleProc]
  /\ ev = NewEv("init", 0)
  /\ events = 0
  /\ \E input \in HelperInputs :
       helperCall = [fn |-> "", input |-> input, result |-> None, sameList |-> FALSE]
  /\ habit = NoHabit
  /\ dial = NoDial

Returns(fn, result) ==
  /\ helperCall' = [helperCall EXCEPT !.fn = fn, !.result = Some(result)]
  /\ UNCHANGED <<contexts, pendingRefreshes, tasks, summary, lastError, cacheKey,
                 cachedTasks, lastFetch, inflight, summaryListeners, now, pages,
                 procs, ev, events, habit, dial>>

BuildTaskSummary ==
  /\ helperCall.fn = ""
  /\ "batch" \in DOMAIN helperCall.input
  /\ Returns("buildTaskSummary",
             buildTaskSummary(helperCall.input.batch, helperCall.input.doneValue,
                              helperCall.input.meetingPriority, DEFAULT_METRICS_ORDER))

SortTasks ==
  /\ helperCall.fn = ""
  /\ "batch" \in DOMAIN helperCall.input
  /\ LET effect == sortTasksCall(helperCall.input.batch)
     IN  helperCall' = [fn |-> "sortTasks",
                        input |-> [helperCall.input EXCEPT !.batch = effect.argument],
                        result |-> Some(effect.returned),
                        sameList |-> effect.sameList]
  /\ UNCHANGED <<contexts, pendingRefreshes, tasks, summary, lastError, cacheKey,
                 cachedTasks, lastFetch, inflight, summaryListeners, now, pages,
                 procs, ev, events, habit, dial>>

PrioritySortIndex ==
  /\ helperCall.fn = ""
  /\ "label" \in DOMAIN helperCall.input
  /\ Returns("prioritySortIndex", prioritySortIndex(helperCall.input.label))

BuildTaskSummaryCall ==
  /\ helperCall.fn = ""
  /\ "taskList" \in DOMAIN helperCall.input
  /\ Returns("buildTaskSummaryCall",
             buildTaskSummaryCall(helperCall.input.taskList, helperCall.input.doneValue,
                                  helperCall.input.meetingPriority,
                                  helperCall.input.metricsOrder))

SanitizeMetricsOrder ==
  /\ helperCall.fn = ""
  /\ "order" \in DOMAIN helperCall.input
  /\ Returns("sanitizeMetricsOrder", sanitizeMetricsOrder(helperCall.input.order))

ExtractTask ==
  /\ helperCall.fn = ""
  /\ "page" \in DOMAIN helperCall.input
  /\ Returns("extractTask",
             extractTask(helperCall.input.page,
                         normalizeSettings(RawSettings(sDbA, Some(sDue), None))))

ExtractPropertyText ==
  /\ helperCall.fn = ""
  /\ "rich_text" \in DOMAIN helperCall.input
  /\ Returns("extractPropertyText",
             extractPropertyText(Some([Prop("rich_text") EXCEPT
                                         !.rich_text = helperCall.input.rich_text])))

NextHelpers ==
  \/ BuildTaskSummary
  \/ SortTasks
  \/ PrioritySortIndex
  \/ BuildTaskSummaryCall
  \/ SanitizeMetricsOrder
  \/ ExtractTask
  \/ ExtractPropertyText

SpecHelpers == InitHelpers /\ [][NextHelpers]_vars

(***************************************************************************)
(* The habit key (notion-habit.ts).  One key is modelled, and one cache    *)
(* key: the settings are complete (token, database and column), lack the   *)
(* column, or lack the token.  The data source holds one record for today  *)
(* with one checkbox; `toggles` counts the updates it accepted, and every  *)
(* record read from it carries the count at the moment of the read.  A     *)
(* query is answered from the data source as it was when the request was   *)
(* sent or as it is when the answer leaves.                                *)
(***************************************************************************)

HabitCacheMs == 30000
HabitTickMs == 15000
MaxHabitTicks == 3
MaxHabitEvents == 4

HabitSettings == {"complete", "noColumn", "noToken"}

\* getCacheKey: defined when token, database and column are all set
getCacheKey(settings) == IF settings = "complete" THEN Some("db-column") ELSE None

\* what the data source holds now, as a query would read it
habitSnapshot(h) == [checked |-> h.checkbox, readAt |-> h.toggles]

\* HabitCoordinator.paint up to its first await: the visual it chooses
habitPaint(h, forced, after) ==
  LET visual == IF h.settings = "noToken" THEN "setup"
                ELSE IF IsSome(h.error) THEN "error"
                ELSE IF ~IsSome(h.habitRecord) THEN "empty"
                ELSE IF Get(h.habitRecord).checked THEN "habit-complete"
                ELSE "habit-incomplete"
      \* the record whose value the key shows, when it shows one
      entry == [visual |-> visual,
                record |-> IF visual \in {"habit-complete", "habit-incomplete"}
                           THEN h.habitRecord ELSE None,
                forced |-> forced, after |-> after]
  IN  [h EXCEPT !.paints = Append(@, entry), !.shown = Some(entry)]

\* fetchAndPaint up to its first await; `after` is the number of accepted
\* updates when a key press calls it, and 0 for the other callers
fetchAndPaint(h, force, after) ==
  IF ~IsSome(getCacheKey(h.settings))
  THEN habitPaint([h EXCEPT !.error =
                     Some("Please configure token, database, and column settings")],
                  force, after)
  ELSE IF IsSome(h.inflight)
  THEN [h EXCEPT !.awaits = Append(@, [at |-> "join", forced |-> force, after |-> after])]
  ELSE IF ~force /\ IsSome(h.cache) /\ h.clock - Get(h.cache).timestamp < HabitCacheMs
  THEN habitPaint([h EXCEPT !.habitRecord = Get(h.cache).record,
                            !.error = Get(h.cache).error], force, after)
  ELSE [h EXCEPT !.inflight = Some(habitSnapshot(h)),
                 !.awaits = Append(@, [at |-> "fetch", forced |-> force, after |-> after])]

\* the result of fetchHabitData for an answer of the data source
habitResult(kind, read) ==
  CASE kind = "ok" -> [record |-> Some(read), error |-> None]
    [] kind = "none" -> [record |-> None, error |-> Some("No habit record found for today")]
    [] OTHER -> [record |-> None, error |-> Some("HTTP 500")]

\* the continuations of the invocations that await the request in flight, in
\* the order in which they started to wait
RECURSIVE habitResume(_, _, _)
habitResume(h, waiting, result) ==
  IF waiting = <<>> THEN h
  ELSE LET w == Head(waiting)
           set == [h EXCEPT !.habitRecord = result.record, !.error = result.error]
           kept == IF w.at = "fetch"
                   THEN [set EXCEPT !.cache = Some([record |-> result.record,
                                                    error |-> result.error,
                                                    timestamp |-> h.clock]),
                                    !.inflight = None]
                   ELSE set
       IN  habitResume(habitPaint(kept, w.forced, w.after), Tail(waiting), result)

HabitStep(h) ==
  /\ habit' = h
  /\ UNCHANGED <<contexts, pendingRefreshes, tasks, summary, lastError, cacheKey,
                 cachedTasks, lastFetch, inflight, summaryListeners, now, pages,
                 procs, ev, events, helperCall, dial>>

HabitBegin == [habit EXCEPT !.paints = <<>>]

\* onWillAppear: register
HabitRegister(settings) ==
  /\ ~habit.registered
  /\ HabitStep(fetchAndPaint([HabitBegin EXCEPT !.registered = TRUE,
                                                !.settings = settings,
                                                !.events = @ + 1], FALSE, 0))

\* onDidReceiveSettings: updateSettings
HabitUpdateSettings(settings) ==
  /\ habit.registered
  /\ habit.events < MaxHabitEvents
  /\ LET set == [HabitBegin EXCEPT !.settings = settings, !.events = @ + 1]
         cleared == IF IsSome(getCacheKey(settings)) /\ IsSome(set.cache)
                    THEN [set EXCEPT !.cache = None] ELSE set
     IN  HabitStep(fetchAndPaint(cleared, FALSE, 0))

\* onKeyUp: handleKeyPress up to the await of its update request
HabitKeyPress ==
  /\ habit.registered
  /\ habit.events < MaxHabitEvents
  /\ LET h == [HabitBegin EXCEPT !.events = @ + 1]
     IN  IF IsSome(h.error) \/ ~IsSome(h.habitRecord) \/ h.settings # "complete"
         THEN HabitStep(h)
         ELSE HabitStep([h EXCEPT !.awaits =
                           Append(@, [at |-> "toggle",
                                      newValue |-> ~Get(h.habitRecord).checked])])

\* the data source answers the query in flight
HabitFetchResponse(kind) ==
  /\ IsSome(habit.inflight)
  /\ \E read \in {Get(habit.inflight), habitSnapshot(habit)} :
       LET waiting == SelectSeq(habit.awaits, LAMBDA w : w.at \in {"fetch", "join"})
           others == SelectSeq(habit.awaits, LAMBDA w : w.at = "toggle")
       IN  HabitStep(habitResume([HabitBegin EXCEPT !.awaits = others], waiting,
                                 habitResult(kind, read)))

\* the data source answers the update request of the i-th waiting invocation
HabitToggleResponse(i, kind) ==
  /\ i \in DOMAIN habit.awaits
  /\ habit.awaits[i].at = "toggle"
  /\ LET w == habit.awaits[i]
         rest == [j \in 1..(Len(habit.awaits) - 1) |->
                    IF j < i THEN habit.awaits[j] ELSE habit.awaits[j + 1]]
         h == [HabitBegin EXCEPT !.awaits = rest]
     IN  IF kind = "ok"
         THEN LET done == [h EXCEPT !.checkbox = w.newValue, !.toggles = @ + 1]
              IN  HabitStep(fetchAndPaint(done, TRUE, done.toggles))
         ELSE HabitStep(h)

HabitTick ==
  /\ habit.registered
  /\ habit.clock < MaxHabitTicks * HabitTickMs
  /\ HabitStep([HabitBegin EXCEPT !.clock = @ + HabitTickMs])

NextHabit ==
  \/ \E settings \in HabitSettings : HabitRegister(settings)
  \/ \E settings \in HabitSettings : HabitUpdateSettings(settings)
  \/ HabitKeyPress
  \/ \E kind \in {"ok", "none", "http"} : HabitFetchResponse(kind)
  \/ \E i \in 1..MaxHabitEvents, kind \in {"ok", "http"} : HabitToggleResponse(i, kind)
  \/ HabitTick

SpecHabit == Init /\ [][NextHabit]_vars

(***************************************************************************)
(* The dials.  One dial is modelled at a time.  The coordinator publishes  *)
(* a summary by storing it and calling the listeners in the same turn      *)
(* (notion-today.ts, refresh); here the summaries come from a small set of *)
(* task lists and of metrics settings, built as the coordinator builds     *)
(* them.  The indexes of the dials count from 0, as in the program.        *)
(***************************************************************************)

LONG_PRESS_THRESHOLD == 1000
DialTickMs == 1000
MaxDialTicks == 2
MaxPresses == 2
MaxTurn == 7

\* the task lists of the summaries: tasks that are not done
DialTaskLists ==
  {<<>>, <<TaskPool[1], TaskPool[2]>>}

\* the metrics orders of the summaries: what normalizeSettings makes of a setting
DialOrders == {sanitizeMetricsOrder(order) : order \in OrderSettings}

\* the summaries the coordinator builds of them while the clock stands at TickMs
DialSummaries(taskLists, orders) ==
  {summaryAt(taskList, sDone, DEFAULT_MEETING_PRIORITY, order, TickMs) :
     taskList \in taskLists, order \in orders}

TaskDialSummaries == DialSummaries(DialTaskLists, {DEFAULT_METRICS_ORDER})

DialStep(d, published) ==
  /\ dial' = d
  /\ summary' = published
  /\ UNCHANGED <<contexts, pendingRefreshes, tasks, lastError, cacheKey,
                 cachedTasks, lastFetch, inflight, summaryListeners, now, pages,
                 procs, ev, events, helperCall, habit>>

(***************************************************************************)
(* The active-tasks dial (active-tasks-dial.ts).  `timers` holds the       *)
(* timeouts that were set and neither cleared nor fired, `callbacks` the   *)
(* timeout callbacks that are suspended at their awaits, `taps` the        *)
(* update requests in flight.  Each press of the dial has a number; a tap  *)
(* on the touch strip has the number 0.  `fired` holds the presses whose   *)
(* long-press timer fired and `marked` the status changes the data source  *)
(* accepted, with the press that sent them.                                *)
(***************************************************************************)

\* onWillAppear: the ContextState of a dial that has just appeared
NewTaskDial ==
  [kind |-> "tasks", isInDetailMode |-> FALSE, currentTaskIndex |-> 0,
   dialPressStartTime |-> None, longPressTimeout |-> None,
   timers |-> {}, callbacks |-> {}, taps |-> {}, fired |-> {}, marked |-> {},
   isDown |-> FALSE, press |-> 0, timer |-> 0, clock |-> 0]

activeTasksOf(s) == IF IsSome(s) THEN Get(s).activeTasks ELSE <<>>

\* onDialRotate
dialRotate(d, s, ticks) ==
  LET totalTasks == Len(activeTasksOf(s))
      next == ticks > 0
      moved == IF next THEN d.currentTaskIndex + 1 ELSE d.currentTaskIndex - 1
  IN  IF totalTasks = 0 THEN d
      ELSE IF ~d.isInDetailMode
      THEN [d EXCEPT !.isInDetailMode = TRUE,
                     !.currentTaskIndex = IF next THEN 0 ELSE totalTasks - 1]
      ELSE IF (next /\ moved >= totalTasks) \/ (~next /\ moved < 0)
      THEN [d EXCEPT !.isInDetailMode = FALSE, !.currentTaskIndex = 0]
      ELSE [d EXCEPT !.currentTaskIndex = moved]

\* onTouchTap up to the await of the update request of markTaskDone
touchTap(d, s, press, configured) ==
  IF ~d.isInDetailMode THEN d
  ELSE IF Len(activeTasksOf(s)) = 0 THEN d
  ELSE IF d.currentTaskIndex + 1 \notin DOMAIN activeTasksOf(s) THEN d
  ELSE IF ~configured THEN d
  ELSE [d EXCEPT !.taps = @ \cup {[press |-> press,
                                   task |-> activeTasksOf(s)[d.currentTaskIndex + 1].id]}]

\* clearTimeout
clearTimeout(d, timeout) ==
  IF IsSome(timeout)
  THEN [d EXCEPT !.timers = {t \in @ : t.id # Get(timeout)}]
  ELSE d

\* onDialDown
dialDown(d) ==
  LET cleared == clearTimeout(d, d.longPressTimeout)
      started == [cleared EXCEPT !.dialPressStartTime = Some(d.clock),
                                 !.isDown = TRUE, !.press = @ + 1]
  IN  IF started.isInDetailMode
      THEN [started EXCEPT
              !.timer = @ + 1,
              !.longPressTimeout = Some(started.timer + 1),
              !.timers = @ \cup {[id |-> started.timer + 1, press |-> started.press,
                                  due |-> d.clock + LONG_PRESS_THRESHOLD]}]
      ELSE started

\* onDialUp
dialUp(d, s, configured) ==
  LET pressDuration == IF IsSome(d.dialPressStartTime)
                       THEN d.clock - Get(d.dialPressStartTime) ELSE 0
      released == [d EXCEPT !.dialPressStartTime = None, !.isDown = FALSE]
      tapped(st) == IF pressDuration < LONG_PRESS_THRESHOLD
                    THEN touchTap(st, s, d.press, configured) ELSE st
  IN  IF IsSome(released.longPressTimeout)
      THEN tapped([clearTimeout(released, released.longPressTimeout)
                     EXCEPT !.longPressTimeout = None])
      ELSE tapped(released)

TaskDialAppears ==
  /\ dial = NoDial
  /\ DialStep(NewTaskDial, summary)

\* the coordinator publishes a summary; the listener of the dial repaints
\* and leaves the ContextState as it is
TaskDialSummary(published) ==
  /\ dial.kind = "tasks"
  /\ published # summary
  /\ DialStep(dial, published)

DialRotate(ticks) ==
  /\ dial.kind = "tasks"
  /\ DialStep(dialRotate(dial, summary, ticks), summary)

TouchTap(configured) ==
  /\ dial.kind = "tasks"
  /\ DialStep(touchTap(dial, summary, 0, configured), summary)

DialDown ==
  /\ dial.kind = "tasks"
  /\ ~dial.isDown
  /\ dial.press < MaxPresses
  /\ DialStep(dialDown(dial), summary)

DialUp(configured) ==
  /\ dial.kind = "tasks"
  /\ dial.isDown
  /\ DialStep(dialUp(dial, summary, configured), summary)

\* the timeout of onDialDown fires: its callback up to its first await
LongPressFires(t) ==
  /\ dial.kind = "tasks"
  /\ t \in dial.timers
  /\ dial.clock >= t.due
  /\ DialStep([dial EXCEPT !.isInDetailMode = FALSE, !.currentTaskIndex = 0,
                           !.timers = @ \ {t}, !.callbacks = @ \cup {t.id},
                           !.fired = @ \cup {t.press}], summary)

\* the callback goes on after its awaits
LongPressReturns(id) ==
  /\ dial.kind = "tasks"
  /\ id \in dial.callbacks
  /\ DialStep([dial EXCEPT !.longPressTimeout = None, !.callbacks = @ \ {id}], summary)

\* the data source answers the update request of a tap
DialMarkResponse(tap, kind) ==
  /\ dial.kind = "tasks"
  /\ tap \in dial.taps
  /\ IF kind = "ok"
     THEN DialStep([dial EXCEPT !.taps = @ \ {tap}, !.marked = @ \cup {tap},
                                !.isInDetailMode = FALSE, !.currentTaskIndex = 0],
                   summary)
     ELSE DialStep([dial EXCEPT !.taps = @ \ {tap}], summary)

DialTick ==
  /\ dial.kind = "tasks"
  /\ dial.clock < MaxDialTicks * DialTickMs
  /\ DialStep([dial EXCEPT !.clock = @ + DialTickMs], summary)

NextTaskDial ==
  \/ TaskDialAppears
  \/ \E built \in TaskDialSummaries : TaskDialSummary(Some(built))
  \/ TaskDialSummary(None)
  \/ \E ticks \in {-1, 1} : DialRotate(ticks)
  \/ \E configured \in BOOLEAN : TouchTap(configured)
  \/ DialDown
  \/ \E configured \in BOOLEAN : DialUp(configured)
  \/ \E t \in dial.timers : LongPressFires(t)
  \/ \E id \in dial.callbacks : LongPressReturns(id)
  \/ \E tap \in dial.taps, kind \in {"ok", "http"} : DialMarkResponse(tap, kind)
  \/ DialTick

SpecTaskDial == Init /\ [][NextTaskDial]_vars

(***************************************************************************)
(* The metrics dial (notion-today-dial.ts).  `turns` keeps the last two    *)
(* rotations that moved the index since the summary or the settings last   *)
(* changed: the index and the metric shown before, the ticks, the number   *)
(* of metrics, and the index and the metric shown after.                   *)
(***************************************************************************)

\* the remainder operator of the program, whose result has the sign of a
jsRemainder(a, n) == IF a >= 0 THEN a % n ELSE -((-a) % n)

\* a variant of the wrap-around that takes the remainder once
wrapOnce(nextIndex, length) == jsRemainder(nextIndex, length)

\* onDialRotate: ((nextIndex % metrics.length) + metrics.length) % metrics.length
wrapIndex(nextIndex, length) ==
  jsRemainder(jsRemainder(nextIndex, length) + length, length)

RECURSIVE dedupeLoop(_, _)
dedupeLoop(result, metrics) ==
  IF metrics = <<>> THEN result
  ELSE dedupeLoop(IF IndexIn(Head(metrics), result) > 0 THEN result
                  ELSE Append(result, Head(metrics)), Tail(metrics))

dedupeMetrics(metrics) ==
  LET result == dedupeLoop(<<>>, metrics)
  IN  IF Len(result) > 0 THEN result ELSE DEFAULT_METRICS_ORDER

\* NotionTodayDialAction.paint up to its first await
metricsPaint(d, s) ==
  IF ~IsSome(s) THEN [d EXCEPT !.shown = None]
  ELSE LET metrics == dedupeMetrics(Get(s).metricsOrder)
           high == IF d.metricIndex >= Len(metrics) THEN Len(metrics) - 1
                   ELSE d.metricIndex
           index == IF high < 0 THEN 0 ELSE high
       IN  [d EXCEPT !.metricIndex = index, !.shown = Some(metrics[index + 1])]

\* onDialRotate
metricsRotate(d, s, ticks) ==
  IF ~IsSome(s) \/ ticks = 0 THEN d
  ELSE LET metrics == dedupeMetrics(Get(s).metricsOrder)
           moved == metricsPaint([d EXCEPT !.metricIndex =
                                    wrapIndex(d.metricIndex + ticks, Len(metrics))], s)
           turn == [from |-> d.metricIndex, before |-> d.shown, ticks |-> ticks,
                    n |-> Len(metrics), to |-> moved.metricIndex,
                    after |-> moved.shown]
       IN  [moved EXCEPT !.turns = IF Len(@) = 0 THEN <<turn>> ELSE <<@[Len(@)], turn>>]

MetricsDialSummaries == DialSummaries({<<TaskPool[1]>>}, DialOrders)

\* onWillAppear
MetricsDialAppears ==
  /\ dial = NoDial
  /\ DialStep(metricsPaint([kind |-> "metrics", metricIndex |-> 0, shown |-> None,
                            turns |-> <<>>], summary), summary)

\* the coordinator publishes a summary; the listener of the dial paints it
MetricsDialSummary(published) ==
  /\ dial.kind = "metrics"
  /\ published # summary
  /\ DialStep(metricsPaint([dial EXCEPT !.turns = <<>>], published), published)

\* onDidReceiveSettings
MetricsDialSettings ==
  /\ dial.kind = "metrics"
  /\ DialStep(metricsPaint([dial EXCEPT !.metricIndex = 0, !.turns = <<>>], summary),
              summary)

MetricsDialRotate(ticks) ==
  /\ dial.kind = "metrics"
  /\ DialStep(metricsRotate(dial, summary, ticks), summary)

NextMetricsDial ==
  \/ MetricsDialAppears
  \/ \E built \in MetricsDialSummaries : MetricsDialSummary(Some(built))
  \/ MetricsDialSummary(None)
  \/ MetricsDialSettings
  \/ \E ticks \in (0 - MaxTurn)..MaxTurn : MetricsDialRotate(ticks)

SpecMetricsDial == Init /\ [][NextMetricsDial]_vars

-----------------------------------------------------------------------------
(* Properties                                                              *)

\* a query of a refresh for the cache key is unanswered
Underway(key, q) ==
  /\ procs[q].pc = "query"
  /\ cacheKeyOf(Get(procs[q].settings)) = key

\* C1: when a non-forced refresh for a cache key calls fetchTodayTasks while
\* the query of an earlier non-forced refresh for the same key is unanswered,
\* the step sends no query: the two refreshes share the one query.
C1_TwoRefreshesOneQuery ==
  [][\A i \in DOMAIN ev'.fetches :
       (/\ ~ev'.fetches[i].force
        /\ \E q \in DOMAIN procs : ~procs[q].force /\ Underway(ev'.fetches[i].key, q))
       => ev'.sent = 0]_vars

Fresh(key) ==
  /\ cacheKey = Some(key)
  /\ lastFetch # None
  /\ now - Get(lastFetch) < CACHE_WINDOW_MS

\* C3 as stated: a non-forced fetch for the key of the cache, less than 60
\* seconds after the last successful fetch, is answered from the cache without
\* a query, whatever list is stored.
C3_EveryStoredResult ==
  [][\A i \in DOMAIN ev'.fetches :
       (~ev'.fetches[i].force /\ Fresh(ev'.fetches[i].key))
       => (ev'.fetches[i].how = "cache" /\ ev'.sent = 0)]_vars

\* C3: a non-forced fetch for the key of the cache, less than 60 seconds
\* after the last successful fetch, returns the stored list without a query
\* when that list is not empty; when it is empty and no query is in flight
\* the fetch sends a query.  A forced fetch is never answered from the cache
\* or from the query in flight: it goes to queryNotion, and the query it
\* sends is the one request of its step.
C3_CacheWindow ==
  [][\A i \in DOMAIN ev'.fetches :
       /\ (~ev'.fetches[i].force /\ Fresh(ev'.fetches[i].key) /\ cachedTasks # <<>>)
            => /\ ev'.fetches[i].how = "cache"
               /\ ev'.sent = 0
               /\ \E j \in DOMAIN ev'.results :
                    /\ ev'.results[j].p = ev'.fetches[i].p
                    /\ ev'.results[j].result = Result(cachedTasks, None)
       /\ (/\ ~ev'.fetches[i].force /\ Fresh(ev'.fetches[i].key)
           /\ cachedTasks = <<>> /\ inflight = None)
            => ev'.fetches[i].how \in {"query", "invalid"}
       /\ ev'.fetches[i].force => ev'.fetches[i].how \in {"query", "invalid"}
       /\ ev'.fetches[i].how = "query" => ev'.sent = 1]_vars

\* a non-forced fetch has been answered from the cache with a list of tasks
C3_Witness ==
  /\ ev.fetches # <<>>
  /\ ~ev.fetches[1].force
  /\ ev.fetches[1].how = "cache"
  /\ ev.sent = 0
  /\ ev.results # <<>>
  /\ ev.results[1].result.tasks # <<>>
  /\ ev.results[1].result.tasks = cachedTasks

\* C4: every task of the list a fetch returns to a refresh is a page of the
\* database of the settings (and so of the cache key) the fetch was made for.
C4_ListOfItsOwnKey ==
  \A i \in DOMAIN ev.results :
    \A j \in DOMAIN ev.results[i].result.tasks :
      Some(PageDb(ev.results[i].result.tasks[j].id)) = ev.results[i].db

\* C5: a non-forced fetch for a cache key, made while a query for that key is
\* unanswered, sends no query of its own, whatever forced refreshes have
\* started or finished since that query was sent.
C5_NoQueryWhileUnderway ==
  [][\A i \in DOMAIN ev'.fetches :
       (/\ ~ev'.fetches[i].force
        /\ \E q \in DOMAIN procs : Underway(ev'.fetches[i].key, q))
       => ev'.fetches[i].how # "query"]_vars

\* C6: a 429 to a query or to a mark-done has the same request sent again
\* and nothing else: no result, no error, no paint, no call of a listener.
\* The response that is not a 429 decides: the query returns the outcome of
\* that response, and an accepted mark-done goes on to showOk without an
\* error, however many 429s came before.
C6_RateLimitRetried ==
  [][/\ ev'.kind = "rate"
          => /\ ev'.sent + ev'.patches = 1
             /\ (ev'.sent = 1) = (ev'.op = "queryResponse")
             /\ ev'.results = <<>> /\ ev'.done = {}
             /\ ev'.painted = <<>> /\ ev'.calls = <<>>
             /\ lastError' = lastError /\ summary' = summary /\ tasks' = tasks
             /\ procs'[ev'.p].pc = procs[ev'.p].pc
             /\ procs'[ev'.p].attempts = procs[ev'.p].attempts + 1
     /\ (ev'.op = "queryResponse" /\ ev'.kind \in {"ok", "http", "throw"})
          => /\ ev'.results # <<>>
             /\ ev'.results[1].p = ev'.p
             /\ ev'.results[1].result.error =
                  (CASE ev'.kind = "ok" -> None
                     [] ev'.kind = "http" -> Some("HTTP 500: Internal Server Error")
                     [] OTHER -> Some("fetch failed"))
             /\ lastError' = ev'.results[1].result.error
     /\ (ev'.op = "markResponse" /\ ev'.kind = "ok")
          => (procs'[ev'.p].pc = "showOk" /\ lastError' = lastError)]_vars

\* a query answered 429 and then 200 has given its refresh the tasks, and no
\* error
C6_Witness ==
  /\ ev.op = "queryResponse"
  /\ ev.kind = "ok"
  /\ ev.attempts = Max429 + 1
  /\ ev.results # <<>>
  /\ ev.results[1].result.error = None
  /\ ev.results[1].result.tasks # <<>>
  /\ lastError = None

\* C7: a query that fails with an exception or with a status that is neither
\* 2xx nor 429 is not sent again: its refresh receives an empty list and an
\* error string, which becomes lastError beside a summary of no tasks.  No
\* fetch result is a rejection, so neither fetchTodayTasks nor refresh throws.
C7_FailedQueryReturnsError ==
  [][/\ (ev'.op = "queryResponse" /\ ev'.kind \in {"http", "throw"})
          => /\ ev'.sent = 0
             /\ procs'[ev'.p].pc # "query"
             /\ ev'.results # <<>>
             /\ ev'.results[1].p = ev'.p
             /\ \A i \in DOMAIN ev'.results :
                  /\ ev'.results[i].result.tasks = <<>>
                  /\ ev'.results[i].result.error # None
             /\ lastError' = ev'.results[1].result.error
             /\ tasks' = <<>>
             /\ summary' # None
             /\ Get(summary').total = 0
     /\ \A i \in DOMAIN ev'.results : ~ev'.results[i].result.thrown]_vars

\* a fetch that threw has left its message in lastError and a summary of no
\* tasks
C7_Witness ==
  /\ ev.op = "queryResponse"
  /\ ev.kind = "throw"
  /\ ev.attempts = 1
  /\ lastError = Some("fetch failed")
  /\ summary # None
  /\ ev.results # <<>>
  /\ ~ev.results[1].result.thrown

\* the errors of the checks of queryNotion
DateConfigErrors ==
  {"Please select a date property in the settings",
   "Database properties not loaded. Please refresh the settings.",
   "The selected date property \"${settings.dateProp}\" was not found in the database. Please check your settings.",
   "The selected property \"${settings.dateProp}\" is not a date property (type: ${propType}). Please select a date property."}

C9_ListenersGetCurrentSummary ==
  \A i \in DOMAIN ev.calls :
    /\ ev.calls[i].value = summary
    /\ summary # None
         => /\ Get(summary).total = Get(summary).completed + Get(summary).active
            /\ Get(summary).active = Len(Get(summary).activeTasks)
            /\ Get(summary).activeTasks = tasks

\* a refresh whose query was answered has called a listener with its summary
C9_Witness ==
  /\ ev.op = "queryResponse"
  /\ ev.calls # <<>>
  /\ ev.calls[1].value # None
  /\ Get(ev.calls[1].value).total > 0

\* C10: the step of subscribeToNotionSummary calls the new listener, and no
\* other, exactly once, with the summary the coordinator holds (None when
\* there is none), and the listener is subscribed.
C10_SubscribeCallsOnce ==
  ev.op = "subscribe"
    => /\ ev.calls = << [listener |-> ev.arg, value |-> summary] >>
       /\ IndexIn(ev.arg, summaryListeners) > 0

\* a second listener has subscribed while there is a summary
C10_Witness ==
  /\ ev.op = "subscribe"
  /\ summary # None
  /\ Len(summaryListeners) = 2
  /\ Len(ev.calls) = 1
  /\ ev.calls[1].value = summary

\* every subscribed listener has been called with the summary in this step
AllNotified ==
  \A j \in DOMAIN summaryListeners' :
    \E i \in DOMAIN ev'.calls :
      ev'.calls[i] = [listener |-> summaryListeners'[j], value |-> summary']

\* C11: the unsubscribe function takes its listener out of the Set, and only
\* listeners in the Set are ever called, so a listener that has unsubscribed
\* is not called by a later refresh.  A step that changes the summary calls
\* every listener still subscribed with the new summary, except the refresh
\* without settings, which calls them once its paintAll has returned.
C11_UnsubscribedNotCalled ==
  [][/\ ev'.op = "unsubscribe" => IndexIn(ev'.arg, summaryListeners') = 0
     /\ \A i \in DOMAIN ev'.calls :
          IndexIn(ev'.calls[i].listener, summaryListeners') > 0
     /\ summary' # summary
          => \/ AllNotified
             \/ /\ procs'[ev'.p].role = "unconfigured"
                /\ procs'[ev'.p].pc = "painting"
     /\ (ev'.op = "refreshDone" /\ procs[ev'.p].role = "unconfigured")
          => AllNotified]_vars

\* l1 has unsubscribed, and a refresh whose query was answered has called l2
\* alone with the new summary
C11_Witness ==
  /\ summaryListeners = <<"l2">>
  /\ ev.op = "queryResponse"
  /\ summary # None
  /\ ev.calls = << [listener |-> "l2", value |-> summary] >>

\* the ids of the tasks in a list
idsOf(list) == {list[i].id : i \in DOMAIN list}

\* C12: a refresh that begins after a mark-done, by sending its query when
\* the page is done at the data source or by taking the list from the cache,
\* publishes tasks and a summary in which the page is not active.
C12_NextRefreshCorrects ==
  [][\A id \in PageIds :
       (/\ pages[id] = sDone
        /\ ev'.results # <<>>
        /\ \/ \E i \in DOMAIN ev'.fetches : ev'.fetches[i].how = "cache"
           \/ /\ ev'.op = "queryResponse"
              /\ procs[ev'.p].seen[id] = sDone)
       => /\ id \notin idsOf(tasks')
          /\ summary' # None => id \notin idsOf(Get(summary').activeTasks)]_vars

\* C13: a key that has detached is not painted: every image a step sets goes
\* to a key that is attached, and the current task is changed only of such
\* a key.
C13_DetachedNotPainted ==
  \A i \in DOMAIN ev.painted : ev.painted[i].id \in contextIds(contexts)

\* the steps that call refresh, and the keys without a token or a database
RefreshOps == {"refresh", "detach", "updateSettings", "markRefresh"}

NoKeyConfigured(ctxs) ==
  /\ Len(ctxs) > 0
  /\ \A i \in DOMAIN ctxs :
       ctxs[i].normalized.token = None \/ ctxs[i].normalized.db = None

\* a refresh that runs while keys are attached and none is configured
\* empties the task list, clears the summary and the error and sends no query
UnconfiguredClears ==
  (ev'.op \in RefreshOps /\ NoKeyConfigured(contexts'))
    => /\ tasks' = <<>>
       /\ summary' = None
       /\ lastError' = None
       /\ ev'.sent = 0
       /\ ev'.fetches = <<>>
       /\ procs'[ev'.p].role = "unconfigured"

\* C14 as stated: such a refresh empties the task list, clears the summary
\* and the error, sends no query, and calls every listener with undefined.
C14_UnconfiguredNotifiesUndefined ==
  [][/\ UnconfiguredClears
     /\ (ev'.op = "refreshDone" /\ procs[ev'.p].role = "unconfigured")
          => /\ ev'.sent = 0
             /\ ev'.calls = [j \in DOMAIN summaryListeners' |->
                               [listener |-> summaryListeners'[j], value |-> None]]]_vars

\* C14 amended: such a refresh empties the task list, clears the summary and
\* the error and sends no query; when its paintAll has returned it calls
\* every listener once, with the summary the coordinator holds at that time.
C14_UnconfiguredNotifiesCurrent ==
  [][/\ UnconfiguredClears
     /\ (ev'.op = "refreshDone" /\ procs[ev'.p].role = "unconfigured")
          => /\ ev'.sent = 0
             /\ UNCHANGED <<tasks, summary, lastError>>
             /\ ev'.calls = [j \in DOMAIN summaryListeners' |->
                               [listener |-> summaryListeners'[j], value |-> summary]]]_vars

\* a key whose tasks had been fetched lost its settings: the refresh has
\* cleared the state and called both listeners with undefined
C14_Witness ==
  /\ ev.op = "refreshDone"
  /\ NoKeyConfigured(contexts)
  /\ cachedTasks # <<>>
  /\ tasks = <<>>
  /\ summary = None
  /\ ev.calls = << [listener |-> "l1", value |-> None],
                   [listener |-> "l2", value |-> None] >>

-----------------------------------------------------------------------------
(* The task helpers                                                        *)

SummaryCall == helperCall.fn = "buildTaskSummary"

\* text without the white space around it
Core(text) ==
  LET inked == {i \in DOMAIN text : text[i] \notin SpaceChars}
  IN  IF inked = {} THEN <<>>
      ELSE SubSeq(text, CHOOSE i \in inked : \A j \in inked : i <= j,
                        CHOOSE i \in inked : \A j \in inked : i >= j)

\* the place of a letter in the alphabet, whatever its case
LetterIndex(c) ==
  IF IndexIn(c, UpperChars) > 0 THEN IndexIn(c, UpperChars) ELSE IndexIn(c, LowerChars)

SameLetter(c, d) == c = d \/ (LetterIndex(c) > 0 /\ LetterIndex(c) = LetterIndex(d))

SameIgnoringCase(a, b) ==
  /\ Len(a) = Len(b)
  /\ \A i \in DOMAIN a : SameLetter(a[i], b[i])

\* the task has a status label that is the done value, white space around
\* it and letter case aside
IsDone(task, doneValue) ==
  /\ task.status # None
  /\ Get(task.status) # <<>>
  /\ SameIgnoringCase(Core(Get(task.status)), Core(doneValue))

\* the positions of the batch whose tasks are not done
ActiveIn(batch, doneValue) == {i \in DOMAIN batch : ~IsDone(batch[i], doneValue)}

\* the bucket of a pillar or project
BucketOf(label) ==
  IF label = None \/ Core(Get(label)) = <<>> THEN Unspecified ELSE Core(Get(label))

RECURSIVE sumCounts(_, _)
sumCounts(store, keys) ==
  IF keys = {} THEN 0
  ELSE LET k == CHOOSE key \in keys : TRUE
       IN  store[k].number + sumCounts(store, keys \ {k})

CountsSumTo(store, n) ==
  /\ \A k \in DOMAIN store : IsNumber(store[k])
  /\ sumCounts(store, DOMAIN store) = n

\* C15: total is the size of the batch and completed + active, active is the
\* length of activeTasks, and the counts of byPillar and those of byProject
\* each sum to active.
C15_SummaryCountsAddUp ==
  SummaryCall =>
    LET result == Get(helperCall.result)
    IN  /\ result.total = Len(helperCall.input.batch)
        /\ result.total = result.completed + result.active
        /\ result.active = Len(result.activeTasks)
        /\ CountsSumTo(result.byPillar, result.active)
        /\ CountsSumTo(result.byProject, result.active)

BucketsCount(store, batch, active, labelOf(_)) ==
  /\ DOMAIN store = {BucketOf(labelOf(batch[i])) : i \in active}
  /\ \A k \in DOMAIN store :
       store[k] = Num(Cardinality({i \in active : BucketOf(labelOf(batch[i])) = k}))

\* C16: byPillar[label] and byProject[label] are the numbers of active tasks
\* whose trimmed pillar and project are the label, absent and blank ones
\* counting under "Unspecified"; completed tasks are counted nowhere.
C16_BucketsCountActiveTasks ==
  SummaryCall =>
    LET result == Get(helperCall.result)
        batch == helperCall.input.batch
        active == ActiveIn(batch, helperCall.input.doneValue)
        pillarOf(task) == task.pillar
        projectOf(task) == task.project
    IN  /\ BucketsCount(result.byPillar, batch, active, pillarOf)
        /\ BucketsCount(result.byProject, batch, active, projectOf)

\* C17: completed counts the tasks that have a status label equal to the
\* done value after trimming and without regard to letter case, and
\* activeTasks holds the others, the tasks without a status label among them.
C17_CompletedByStatus ==
  SummaryCall =>
    LET result == Get(helperCall.result)
        batch == helperCall.input.batch
        active == ActiveIn(batch, helperCall.input.doneValue)
    IN  /\ result.completed = Len(batch) - Cardinality(active)
        /\ Len(result.activeTasks) = Cardinality(active)
        /\ idsOf(result.activeTasks) = {batch[i].id : i \in active}

\* " done " and "To Do" against the done value "Done": one task is completed,
\* the tasks with another status and without a status are active
C17_Witness ==
  /\ SummaryCall
  /\ helperCall.input.doneValue = sDone
  /\ idsOf(helperCall.input.batch) = {"t3", "t2", "t7"}
  /\ Get(helperCall.result).completed = 1
  /\ idsOf(Get(helperCall.result).activeTasks) = {"t2", "t7"}

HasDue(task) == task.due # None /\ Get(task.due) # <<>>

\* an ISO date before another: the first digit that differs is less
DateBefore(a, b) ==
  \E k \in DOMAIN a \cap DOMAIN b :
    /\ \A i \in 1..(k - 1) : a[i] = b[i]
    /\ IndexIn(a[k], DigitChars) < IndexIn(b[k], DigitChars)

\* a title before another without regard to letter case
TitleBefore(a, b) ==
  \/ Len(a) < Len(b) /\ SameIgnoringCase(a, SubSeq(b, 1, Len(a)))
  \/ \E k \in DOMAIN a \cap DOMAIN b :
       /\ \A i \in 1..(k - 1) : SameLetter(a[i], b[i])
       /\ LetterIndex(a[k]) < LetterIndex(b[k])

\* the rank of each label: the 0-based place of remember, quick-task, 1st- to
\* 5th-priority, errand, meetings, and one more than the length of that
\* sequence for every other label
RankTable ==
  << <<None, 10>>,
     <<Some(<<>>), 10>>,
     <<Some(<<" ">>), 10>>,
     <<Some(<<"R","e","m","e","m","b","e","r">>), 0>>,
     <<Some(<<"q","u","i","c","k"," ","t","a","s","k">>), 1>>,
     <<Some(<<"Q","u","i","c","k","-","T","a","s","k">>), 1>>,
     <<Some(<<"1","s","t"," ","P","r","i","o","r","i","t","y">>), 2>>,
     <<Some(<<"F","i","r","s","t"," ","P","r","i","o","r","i","t","y">>), 2>>,
     <<Some(<<"1","s","t","-","p","r","i","o","r","i","t","y">>), 2>>,
     <<Some(<<"2","n","d"," ","p","r","i","o","r","i","t","y">>), 3>>,
     <<Some(<<"S","E","C","O","N","D"," ","P","R","I","O","R","I","T","Y">>), 3>>,
     <<Some(<<"3","r","d"," ","P","r","i","o","r","i","t","y">>), 4>>,
     <<Some(<<"t","h","i","r","d","_","p","r","i","o","r","i","t","y">>), 4>>,
     <<Some(<<"4","t","h"," ","P","r","i","o","r","i","t","y">>), 5>>,
     <<Some(<<"F","o","u","r","t","h"," ","P","r","i","o","r","i","t","y">>), 5>>,
     <<Some(<<"5","t","h"," ","P","r","i","o","r","i","t","y">>), 6>>,
     <<Some(<<"f","i","f","t","h"," ","p","r","i","o","r","i","t","y">>), 6>>,
     <<Some(<<"E","r","r","a","n","d">>), 7>>,
     <<Some(<<"M","e","e","t","i","n","g","s">>), 8>>,
     <<Some(<<"m","e","e","t","i","n","g","s">>), 8>>,
     <<Some(<<"m","e","e","t","i","n","g">>), 10>>,
     <<Some(<<"M","e","e","t","i","n","g">>), 10>>,
     <<Some(<<"C","a","l","l","s">>), 10>>,
     <<Some(<<"S","i","x","t","h"," ","P","r","i","o","r","i","t","y">>), 10>>,
     <<Some(<<"c","o","n","s","t","r","u","c","t","o","r">>), 10>>,
     <<Some(<<"U","r","g","e","n","t">>), 10>> >>

ExpectedRank(label) ==
  RankTable[CHOOSE i \in DOMAIN RankTable : RankTable[i][1] = label][2]

\* x has to come before y: by due date, a missing one being last, then by
\* rank, then by title
MustPrecede(x, y) ==
  \/ HasDue(x) /\ ~HasDue(y)
  \/ HasDue(x) /\ HasDue(y) /\ DateBefore(Get(x.due), Get(y.due))
  \/ /\ (~HasDue(x) /\ ~HasDue(y)) \/ (HasDue(x) /\ HasDue(y) /\ x.due = y.due)
     /\ \/ ExpectedRank(x.priority) < ExpectedRank(y.priority)
        \/ /\ ExpectedRank(x.priority) = ExpectedRank(y.priority)
           /\ TitleBefore(x.title, y.title)

\* C18: sortTasks returns the tasks of the batch in the order of due date
\* (a missing due date last), then priority rank, then title without regard
\* to letter case.
C18_SortOrder ==
  helperCall.fn = "sortTasks" =>
    LET sorted == Get(helperCall.result)
        batch == helperCall.input.batch
    IN  /\ Len(sorted) = Len(batch)
        /\ idsOf(sorted) = idsOf(batch)
        /\ \A i, j \in DOMAIN sorted : i < j => ~MustPrecede(sorted[j], sorted[i])

\* a task without due date, one due later with a high rank, and one due
\* earlier with no rank come out by due date
C18_Witness ==
  /\ helperCall.fn = "sortTasks"
  /\ [i \in DOMAIN helperCall.input.batch |-> helperCall.input.batch[i].id]
       = <<"t5", "t4", "t2">>
  /\ [i \in DOMAIN Get(helperCall.result) |-> Get(helperCall.result)[i].id]
       = <<"t2", "t4", "t5">>

\* C19: prioritySortIndex returns the rank of the label, a spelled-out ordinal
\* having the rank of its numeral, and every absent, blank or unknown label
\* the one rank above all known ranks.
C19_PriorityRank ==
  helperCall.fn = "prioritySortIndex" =>
    /\ Get(helperCall.result) = ExpectedRank(helperCall.input.label)
    /\ Get(helperCall.result) \in 0..(Len(PRIORITY_SEQUENCE) - 1)
                                    \cup {Len(PRIORITY_SEQUENCE) + 1}

C19_Witness ==
  /\ helperCall.fn = "prioritySortIndex"
  /\ helperCall.input.label = Some(<<"F","i","r","s","t"," ","P","r","i","o","r","i","t","y">>)
  /\ Get(helperCall.result) = 2

\* the priority of the task is the configured meeting priority, the default
\* one, "meeting" or "meetings"
Qualifies(task, meetingPriority) ==
  /\ task.priority # None
  /\ \E name \in {meetingPriority, DEFAULT_MEETING_PRIORITY,
                  <<"m","e","e","t","i","n","g">>, <<"m","e","e","t","i","n","g","s">>} :
       SameIgnoringCase(Core(Get(task.priority)), name)

DueEarlier(x, y) ==
  \/ HasDue(x) /\ ~HasDue(y)
  \/ HasDue(x) /\ HasDue(y) /\ DateBefore(Get(x.due), Get(y.due))

\* C20: when active tasks qualify as meetings, nextMeeting is the first of
\* the batch among those of them that have the earliest due date.
C20_NextMeeting ==
  SummaryCall =>
    LET batch == helperCall.input.batch
        candidates == {i \in ActiveIn(batch, helperCall.input.doneValue) :
                         Qualifies(batch[i], helperCall.input.meetingPriority)}
        earliest == {i \in candidates :
                       \A j \in candidates : ~DueEarlier(batch[j], batch[i])}
    IN  candidates # {}
          => Get(helperCall.result).nextMeeting
               = Some(batch[CHOOSE i \in earliest : \A j \in earliest : i <= j])

\* two meetings due the same day after a completed one due earlier: the
\* first of the two is chosen
C20_Witness ==
  /\ SummaryCall
  /\ helperCall.input.doneValue = sDone
  /\ [i \in DOMAIN helperCall.input.batch |-> helperCall.input.batch[i].id]
       = <<"t3", "t6", "t4">>
  /\ Get(helperCall.result).nextMeeting # None
  /\ Get(Get(helperCall.result).nextMeeting).id = "t6"

\* C21: when no active task qualifies as a meeting, nextMeeting is the first
\* of the sorted active tasks, a task no other active task has to precede;
\* nextMeeting is absent exactly when no task is active.
C21_NextMeetingFallback ==
  SummaryCall =>
    LET result == Get(helperCall.result)
        batch == helperCall.input.batch
        active == ActiveIn(batch, helperCall.input.doneValue)
        candidates == {i \in active : Qualifies(batch[i], helperCall.input.meetingPriority)}
    IN  /\ (result.nextMeeting = None) <=> (active = {})
        /\ (candidates = {} /\ active # {})
             => /\ result.nextMeeting = Some(result.activeTasks[1])
                /\ \E i \in active : batch[i] = Get(result.nextMeeting)
                /\ \A i \in active : ~MustPrecede(batch[i], Get(result.nextMeeting))

\* no meeting among a task without due date and one due today, given in that
\* order: the one due today is the next meeting
C21_Witness ==
  /\ SummaryCall
  /\ helperCall.input.doneValue = sDone
  /\ [i \in DOMAIN helperCall.input.batch |-> helperCall.input.batch[i].id]
       = <<"t7", "t1">>
  /\ Get(helperCall.result).nextMeeting # None
  /\ Get(Get(helperCall.result).nextMeeting).id = "t1"

IsSummary(value) == "total" \in DOMAIN value

\* C22: buildTaskSummary raises for no input; with only a task list and a
\* done value it returns the summary of the batch with the default metrics
\* order.
C22_SummaryNeverRaises ==
  helperCall.fn = "buildTaskSummaryCall" =>
    LET result == Get(helperCall.result)
    IN  /\ IsSummary(result)
        /\ result.total = Len(helperCall.input.taskList)
        /\ result.total = result.completed + result.active
        /\ helperCall.input.metricsOrder = None
             => result.metricsOrder = DEFAULT_METRICS_ORDER

\* a metrics order that is not empty, names no metric twice and names known
\* metrics only
ValidOrder(order) ==
  /\ order # <<>>
  /\ \A i, j \in DOMAIN order : i # j => order[i] # order[j]
  /\ \A i \in DOMAIN order : IndexIn(order[i], METRIC_VALUES) > 0

\* C23: the metricsOrder of the summary buildTaskSummary returns is not
\* empty, names no metric twice and names known metrics only, whatever order
\* the caller passes, and is the default order when nothing valid is passed.
C23_SummaryOrderValid ==
  helperCall.fn = "buildTaskSummaryCall" =>
    LET result == Get(helperCall.result)
        Known(order) == \E i \in DOMAIN order : IndexIn(order[i], METRIC_VALUES) > 0
    IN  /\ IsSummary(result)
        /\ ValidOrder(result.metricsOrder)
        /\ (helperCall.input.metricsOrder = None
            \/ ~Known(Get(helperCall.input.metricsOrder)))
             => result.metricsOrder = DEFAULT_METRICS_ORDER

\* the known metric an entry names, letter case and the white space around
\* it aside: its place in METRIC_VALUES, or 0
MetricNamed(piece) ==
  firstIn({k \in DOMAIN METRIC_VALUES : SameIgnoringCase(Core(piece), METRIC_VALUES[k])}, 0)

\* C24: sanitizeMetricsOrder returns the known metrics that occur in the list
\* or between the commas of the string, each once, in the order of their
\* first occurrence, and the default list when none occurs.
C24_SanitizedOrder ==
  helperCall.fn = "sanitizeMetricsOrder" =>
    LET result == Get(helperCall.result)
        pieces == helperCall.input.order.pieces
        named == {MetricNamed(pieces[i]) : i \in DOMAIN pieces} \ {0}
        FirstAt(k) == firstIn({i \in DOMAIN pieces : MetricNamed(pieces[i]) = k}, 0)
    IN  /\ ValidOrder(result)
        /\ named = {} => result = METRIC_VALUES
        /\ named # {}
             => /\ {IndexIn(result[i], METRIC_VALUES) : i \in DOMAIN result} = named
                /\ \A i, j \in DOMAIN result :
                     i < j => FirstAt(IndexIn(result[i], METRIC_VALUES))
                                < FirstAt(IndexIn(result[j], METRIC_VALUES))

\* "Active", "total", "ACTIVE" give active, total
C24_Witness ==
  /\ helperCall.fn = "sanitizeMetricsOrder"
  /\ helperCall.input.order.kind = "array"
  /\ Len(helperCall.input.order.pieces) = 3
  /\ Get(helperCall.result) = << <<"a","c","t","i","v","e">>, <<"t","o","t","a","l">> >>

\* the orderings of a list
Orderings(list) ==
  {[i \in DOMAIN list |-> list[f[i]]] :
     f \in {g \in [DOMAIN list -> DOMAIN list] : \A i, j \in DOMAIN list : i # j => g[i] # g[j]}}

\* C25: for every ordering of the batch buildTaskSummary returns the same
\* total, completed, active, byPillar and byProject and the same order of
\* activeTasks.
C25_InputOrderIrrelevant ==
  SummaryCall =>
    LET result == Get(helperCall.result)
    IN  \A other \in Orderings(helperCall.input.batch) :
          LET again == buildTaskSummary(other, helperCall.input.doneValue,
                                        helperCall.input.meetingPriority,
                                        DEFAULT_METRICS_ORDER)
          IN  /\ again.total = result.total
              /\ again.completed = result.completed
              /\ again.active = result.active
              /\ again.byPillar = result.byPillar
              /\ again.byProject = result.byProject
              /\ again.activeTasks = result.activeTasks

C27_TitleNeverEmpty ==
  helperCall.fn = "extractTask" =>
    LET task == Get(helperCall.result)
        page == helperCall.input.page
        titles == {i \in DOMAIN page.properties : page.properties[i].value.type = "title"}
        Blank(prop) ==
          \/ prop.title = None
          \/ \A k \in DOMAIN Get(prop.title) : Get(prop.title)[k].plain_text = <<>>
    IN  /\ task.title # <<>>
        /\ (titles = {} \/ \A i \in titles : Blank(page.properties[i].value))
             => task.title = untitled

\* the words of a text, in their order: its longest stretches without white
\* space
WordsOf(text) ==
  LET Inked(i) == text[i] \notin SpaceChars
      starts == {a \in DOMAIN text : Inked(a) /\ (a = 1 \/ ~Inked(a - 1))}
      EndOf(a) == CHOOSE b \in a..Len(text) :
                    /\ \A k \in a..b : Inked(k)
                    /\ (b = Len(text) \/ ~Inked(b + 1))
      Nth(n) == CHOOSE a \in starts : Cardinality({x \in starts : x <= a}) = n
  IN  [n \in 1..Cardinality(starts) |-> SubSeq(text, Nth(n), EndOf(Nth(n)))]

RECURSIVE Flatten(_)
Flatten(lists) == IF lists = <<>> THEN <<>> ELSE Head(lists) \o Flatten(Tail(lists))

\* text is words, in their order, with one space between two of them
SingleSpaced(text, words) ==
  /\ WordsOf(text) = words
  /\ Len(text) = Len(Flatten(words)) + Len(words) - 1
  /\ \A i \in DOMAIN text : text[i] \in SpaceChars => text[i] = " "

\* the fragments of the rich_text value of the call
Fragments ==
  IF helperCall.input.rich_text = None THEN <<>>
  ELSE [i \in DOMAIN Get(helperCall.input.rich_text) |->
          Get(helperCall.input.rich_text)[i].plain_text]

\* C28 as stated: for a rich_text property extractPropertyText returns the
\* fragments' plain text put one after the other, with every run of white
\* space as one space and none around it, and nothing when that is empty.
C28_FragmentsConcatenated ==
  helperCall.fn = "extractPropertyText" =>
    LET words == WordsOf(Flatten(Fragments))
    IN  IF words = <<>> THEN helperCall.result = Some(None)
        ELSE /\ Get(helperCall.result) # None
             /\ SingleSpaced(Get(Get(helperCall.result)), words)

\* C28: for a rich_text property extractPropertyText returns the fragments'
\* plain text with a space between two fragments, with every run of white
\* space as one space and none around it: the words of the fragments, in their
\* order, one space apart; it returns nothing when there is no word.
C28_FragmentsJoinedBySpace ==
  helperCall.fn = "extractPropertyText" =>
    LET words == Flatten([i \in DOMAIN Fragments |-> WordsOf(Fragments[i])])
    IN  IF words = <<>> THEN helperCall.result = Some(None)
        ELSE /\ Get(helperCall.result) # None
             /\ SingleSpaced(Get(Get(helperCall.result)), words)

\* the fragments "a" and "b" give "a b"
C28_Witness ==
  /\ helperCall.fn = "extractPropertyText"
  /\ Fragments = << <<"a">>, <<"b">> >>
  /\ helperCall.result = Some(Some(<<"a", " ", "b">>))

\* C29: the query for today's tasks asks for the pages whose date property
\* equals today and whose status is not the done value: the answer of the
\* data source to it holds no task whose status is the done value.
C29_QueryExcludesDone ==
  (ev.op = "queryResponse" /\ ev.kind = "ok") =>
    \A i \in DOMAIN ev.results :
      \A j \in DOMAIN ev.results[i].result.tasks :
        ev.results[i].result.tasks[j].status # Some(sDone)

\* C30: whatever keys appear, disappear and have their settings saved, with
\* a position another key holds or with none, no two attached keys hold the
\* same position.
C30_PositionsDistinct ==
  \A i, j \in DOMAIN contexts :
    i # j => contexts[i].normalized.position # contexts[j].normalized.position

\* C31: every paint shows one of four states: setup when the key has no
\* token or no database; otherwise error when the coordinator holds an error
\* string; otherwise empty when the key is given no task; otherwise the task.
\* A key with a token and a database is never shown empty or with a task
\* while an error string is held.
C31_PaintSelectsState ==
  \A i \in DOMAIN ev.painted :
    LET shown == ev.painted[i]
        configured ==
          IF shown.live
            THEN /\ ~Falsy(contextOf(contexts, shown.id).normalized.token)
                 /\ ~Falsy(contextOf(contexts, shown.id).normalized.db)
            ELSE shown.hasToken /\ shown.hasDb
    IN  /\ shown.hasError = (lastError # None)
        /\ shown.hasTask = (shown.task # None)
        /\ shown.visual \in {"setup", "error", "empty", "task"}
        /\ (shown.visual = "setup") = ~configured
        /\ (shown.visual = "error") = (configured /\ lastError # None)
        /\ (shown.visual = "empty") = (configured /\ lastError = None /\ shown.task = None)
        /\ (shown.visual = "task") = (configured /\ lastError = None /\ shown.task # None)

\* a key is given a task while an error string is held, and shows the error
C31_Witness ==
  \E i \in DOMAIN ev.painted :
    /\ ev.painted[i].visual = "error"
    /\ ev.painted[i].task # None
    /\ lastError # None

\* the key has a token and a database, and its current task is the task at
\* its position in the list, or none when the list is shorter
ShowsItsTask(ctx, list) ==
  (~Falsy(ctx.normalized.token) /\ ~Falsy(ctx.normalized.db))
    => ctx.currentTask = IF OrDefault(ctx.normalized.position, 0) \in 1..Len(list)
                           THEN Some(list[OrDefault(ctx.normalized.position, 0)])
                           ELSE None

\* C32: when a refresh has completed, every attached key with a token and a
\* database has as its current task the task at its position in the
\* coordinator's task list, and none when the list is shorter.
C32_KeysShowTheirSlot ==
  ev.done # {} /\ ev.op \in {"refreshDone"} \cup RefreshOps
    => \A i \in DOMAIN contexts : ShowsItsTask(contexts[i], tasks)

\* C33: when the attach of a key with a token and a database resolves, by the
\* end of its own refresh or of the refresh it joined, and the key is still
\* attached, the key's current task is the task at its position in the
\* coordinator's task list.
C33_AttachPaintsFromCurrent ==
  [][\A p \in ev'.done :
       (ev'.op = "refreshDone" /\ procs[p].key # None /\ procs[p].live)
         => ShowsItsTask(contextOf(contexts', Get(procs[p].key)), tasks')]_vars

\* C34: when the PATCH of a mark-done is answered with a status that is
\* neither 2xx nor 429, the cached task list, the page and the pending
\* refreshes stay as they are, no request is sent and no fetch is begun, the
\* failure message is the coordinator's error string, and handleKeyPress has
\* returned.
C34_FailedMarkDone ==
  [][(ev'.op = "markResponse" /\ ev'.kind = "http")
       => /\ cachedTasks' = cachedTasks
          /\ lastFetch' = lastFetch
          /\ pages' = pages
          /\ pendingRefreshes' = pendingRefreshes
          /\ ev'.fetches = <<>> /\ ev'.sent = 0 /\ ev'.patches = 0
          /\ lastError' = Some("Failed to update task: Notion update failed 500")
          /\ ev'.done = {ev'.p}
          /\ procs' = [procs EXCEPT ![ev'.p] = IdleProc]]_vars

\* a mark-done has failed while the cache held tasks
C34_Witness ==
  /\ ev.op = "markResponse"
  /\ ev.kind = "http"
  /\ cachedTasks # <<>>
  /\ lastError = Some("Failed to update task: Notion update failed 500")
  /\ ev.done # {}

C36_ClearedAfterLastDetach ==
  (/\ contexts = <<>>
   /\ \A p \in 1..MaxProcs : procs[p].pc = "idle"
   /\ ev.op \in {"detach", "refreshDone", "queryResponse"})
    => /\ summary = None
       /\ tasks = <<>>
       /\ \A i \in DOMAIN ev.calls : ev.calls[i].value = None


(***************************************************************************)
(* C37: the refresh that follows a successful toggle of a habit checkbox   *)
(* paints the key from a record that was read after the toggle.            *)
(***************************************************************************)
C37_ForcedPaintIsFresh ==
  \A i \in DOMAIN habit.paints :
    LET painted == habit.paints[i]
    IN  painted.forced /\ IsSome(painted.record)
          => Get(painted.record).readAt >= painted.after

C37_Witness ==
  \E i \in DOMAIN habit.paints :
    /\ habit.paints[i].forced
    /\ IsSome(habit.paints[i].record)
    /\ Get(habit.paints[i].record).readAt >= habit.paints[i].after


(***************************************************************************)
(* C38: one press of a task dial never does both: a press whose long-press *)
(* timer fired changes no status, and a press that changed a status has no *)
(* long-press firing.                                                      *)
(***************************************************************************)
C38_PressDoesOneAction ==
  dial.kind = "tasks" =>
    \A tap \in dial.marked : tap.press # 0 => tap.press \notin dial.fired

(***************************************************************************)
(* C39: in detail mode the current task index is an index into the task    *)
(* list of the latest summary.                                             *)
(***************************************************************************)
C39_DetailIndexValid ==
  dial.kind = "tasks" /\ dial.isInDetailMode =>
    /\ IsSome(summary)
    /\ dial.currentTaskIndex \in 0..(Len(Get(summary).activeTasks) - 1)


(***************************************************************************)
(* C40: a rotation of the metrics dial by t ticks moves the index to       *)
(* (index + t) modulo n, a value in 0..n-1, n being the number of metrics  *)
(* of the summary's order; a rotation by n ticks, and a rotation by t      *)
(* ticks followed by one by -t ticks, show the same metric again.          *)
(***************************************************************************)
C40_RotationIsModular ==
  dial.kind = "metrics" =>
    /\ \A i \in DOMAIN dial.turns :
         LET turn == dial.turns[i]
         IN  /\ turn.n = Cardinality({Get(summary).metricsOrder[j] :
                                        j \in DOMAIN Get(summary).metricsOrder})
             /\ turn.to = (turn.from + turn.ticks) % turn.n
             /\ turn.to \in 0..(turn.n - 1)
             /\ turn.ticks \in {turn.n, 0 - turn.n} => turn.after = turn.before
    /\ Len(dial.turns) = 2 /\ dial.turns[2].ticks = 0 - dial.turns[1].ticks
         => /\ dial.turns[2].to = dial.turns[1].from
            /\ dial.turns[2].after = dial.turns[1].before

C40_Witness ==
  /\ dial.kind = "metrics"
  /\ Len(dial.turns) = 2
  /\ dial.turns[2].ticks = 0 - dial.turns[1].ticks
  /\ dial.turns[1].from + dial.turns[1].ticks < 0
  /\ dial.turns[1].to # dial.turns[1].from

====
